---- MODULE Spec2Model ----
(***************************************************************************)
(* A model of the seo-audit analyzers: the keyword analyzer                *)
(* (src/src/analyzers/keywordAnalyzer.ts) and the content analyzer         *)
(* (src/unnamed/part_004).                                                 *)
(*                                                                         *)
(* A JavaScript string is a sequence of one-character strings.  A number   *)
(* that the code computes by division is kept as an exact fraction         *)
(* [num, den]; a division by zero gives the IEEE value the code gets.      *)
(***************************************************************************)
EXTENDS Integers, Sequences, FiniteSets, TLC

VARIABLES
    txt,        \* the text argument of the function under analysis
    kw,         \* the keyword argument
    norm,       \* the outcome of normalizeText(txt)
    norm2,      \* the outcome of normalizeText(norm.value)
    occ,        \* the outcome of findKeywordOccurrences(txt, kw)
    str1,       \* the first argument of calculateSimilarity
    str2,       \* the second argument of calculateSimilarity
    sim,        \* the outcome of calculateSimilarity(str1, str2)
    simSwapped, \* the outcome of calculateSimilarity(str2, str1)
    keywords,   \* the argument of analyzeKeywordRelationships
    rel,        \* the outcome of analyzeKeywordRelationships(keywords)
    doc,        \* the document: title, meta description, path, body nodes
    key,        \* the keyword argument of analyzeKeyword and displayResults
    analyzed,   \* the outcome of analyzeKeyword(doc, key)
    displayed,  \* the outcome of displayResults(analyzed.value, key)
    page,       \* the document of analyzeContent: language tag and paragraphs
    pc,         \* where analyzeContent stands
    paragraphIndex, \* the paragraph the loop of analyzeContent is at (from 1)
    sentenceIndex,  \* the sentence of that paragraph the inner loop is at
    contentLog, \* the lines analyzeContent has written
    advisories, \* the number of improveText calls analyzeContent has made
    usageDocument,  \* the document argument of analyzeKeywordUsage
    keywordsInput,  \* the keywordsInput argument of analyzeKeywordUsage
    usagePc,        \* where analyzeKeywordUsage stands
    usageKeywords,  \* the keywords that analyzeKeywordUsage split the input into
    usageIndex,     \* the keyword that forEach is at (from 1)
    usageAnalysis,  \* the outcome of analyzeKeyword for that keyword
    usageLog,       \* the lines analyzeKeywordUsage and its callees have written
    calls,          \* the calls analyzeKeywordUsage has made, in order
    sample,     \* the argument of the readability function under analysis
    counted,    \* the outcome of countWordSyllables(sample)
    measured,   \* the outcome of calculateMetrics(sample.text, sample.language)
    lixScore,   \* the outcome of calculateLIX(sample.text)
    advised,    \* the outcome of getReadabilityRecommendations(sample.metrics, sample.language)
    auditSource,    \* which runLighthouseAudit runs: lighthouseAnalyzer.ts or index.ts
    auditPc,        \* where runLighthouseAudit stands
    chromeState,    \* the Chrome instance: none, running or killed
    spinCalls,      \* the calls made on the spinner, in order
    runnerResult,   \* what the lighthouse call resolved with
    auditLog,       \* the lines runLighthouseAudit has written
    auditOutcome    \* how the promise of runLighthouseAudit settled

textVars == <<txt, kw, norm, norm2, occ>>
simVars == <<str1, str2, sim, simSwapped>>
relVars == <<keywords, rel>>
keywordVars == <<doc, key, analyzed, displayed>>
contentVars == <<page, pc, paragraphIndex, sentenceIndex, contentLog, advisories>>
usageVars == <<usageDocument, keywordsInput, usagePc, usageKeywords, usageIndex,
               usageAnalysis, usageLog, calls>>
readabilityVars == <<sample, counted, measured, lixScore, advised>>
auditVars == <<auditSource, auditPc, chromeState, spinCalls, runnerResult, auditLog,
               auditOutcome>>
vars == <<textVars, simVars, relVars, keywordVars, contentVars, usageVars, readabilityVars,
          auditVars>>

\* The outcome of a call: not made yet, returned a value, or threw.
NotCalled == [status |-> "none", value |-> <<>>]
Returned(v) == [status |-> "ok", value |-> v]
Threw(e) == [status |-> "threw", value |-> e]

(***************************************************************************)
(* Characters                                                              *)
(***************************************************************************)
LowerLetters == <<"a","b","c","d","e","f","g","h","i","j","k","l","m",
                  "n","o","p","q","r","s","t","u","v","w","x","y","z">>
UpperLetters == <<"A","B","C","D","E","F","G","H","I","J","K","L","M",
                  "N","O","P","Q","R","S","T","U","V","W","X","Y","Z">>
Digits == {"0","1","2","3","4","5","6","7","8","9"}

Range(f) == {f[i] : i \in DOMAIN f}

\* The lowercase letter of every uppercase letter.
LowerOf == [c \in Range(UpperLetters) |-> LowerLetters[CHOOSE i \in 1..26 : UpperLetters[i] = c]]

\* String.prototype.toLowerCase on one character.
toLowerCase(c) == IF c \in DOMAIN LowerOf THEN LowerOf[c] ELSE c

\* The character class of the first replace of normalizeText (the grave
\* accent of the class has no string literal here and is left out).
Punctuation == {".", ",", "/", "#", "!", "$", "%", "^", "&", "*", ";", ":",
                "{", "}", "=", "-", "_", "~", "(", ")"}

\* The regular expression class \s, on the characters of the model.
IsSpace(c) == c \in {" ", "\t", "\n"}

\* The regular expression class \w.
WordCharacters == Range(LowerLetters) \cup Range(UpperLetters) \cup Digits \cup {"_"}
IsWordChar(c) == c \in WordCharacters

(***************************************************************************)
(* Strings                                                                 *)
(***************************************************************************)
\* The elements of s at the indices i with keep[i], in order.
Filter(s, keep) ==
    LET kept(i) == keep[i]
        idx == SelectSeq([i \in 1..Len(s) |-> i], kept)
    IN  [j \in 1..Len(idx) |-> s[idx[j]]]

\* s.toLowerCase()
LowerCase(s) == [i \in 1..Len(s) |-> toLowerCase(s[i])]

\* s.replace(/\s+/g, space): every run of whitespace becomes one space.
CollapseSpaces(s) ==
    LET first == [i \in 1..Len(s) |-> ~IsSpace(s[i]) \/ i = 1 \/ ~IsSpace(s[i - 1])]
        kept == Filter(s, first)
    IN  [j \in 1..Len(kept) |-> IF IsSpace(kept[j]) THEN " " ELSE kept[j]]

\* s.trim()
Trim(s) ==
    LET n == Len(s)
    IN  IF \A i \in 1..n : IsSpace(s[i]) THEN <<>>
        ELSE LET lo == CHOOSE i \in 1..n : ~IsSpace(s[i]) /\ \A j \in 1..(i - 1) : IsSpace(s[j])
                 hi == CHOOSE i \in 1..n : ~IsSpace(s[i]) /\ \A j \in (i + 1)..n : IsSpace(s[j])
             IN  SubSeq(s, lo, hi)

\* s.split(sep) for a one-character separator: "" gives [""].
SplitChar(s, sep) ==
    LET at(i) == s[i] = sep
        cuts == <<0>> \o SelectSeq([i \in 1..Len(s) |-> i], at) \o <<Len(s) + 1>>
    IN  [j \in 1..(Len(cuts) - 1) |-> SubSeq(s, cuts[j] + 1, cuts[j + 1] - 1)]

\* s.split(/\s+/): every run of whitespace separates; leading or trailing
\* whitespace gives an empty first or last token.
SplitSpaces(s) == SplitChar(CollapseSpaces(s), " ")

RECURSIVE JoinFrom(_, _, _)
JoinFrom(parts, sep, i) ==
    IF i > Len(parts) THEN <<>>
    ELSE IF i = Len(parts) THEN parts[i]
    ELSE parts[i] \o sep \o JoinFrom(parts, sep, i + 1)

\* parts.join(sep)
Join(parts, sep) == JoinFrom(parts, sep, 1)

\* a.slice(from, to) with 0-based from and exclusive to, clamped as in JS.
Slice(a, from, to) ==
    LET lo == IF from > Len(a) THEN Len(a) ELSE from
        hi == IF to > Len(a) THEN Len(a) ELSE to
    IN  IF hi <= lo THEN <<>> ELSE SubSeq(a, lo + 1, hi)

(***************************************************************************)
(* keywordAnalyzer.ts                                                      *)
(***************************************************************************)
\* normalizeText with the whitespace collapsed before the punctuation goes.
normalizeText_CollapseFirst(text) ==
    LET collapsed == CollapseSpaces(LowerCase(text))
        notPunct == [i \in 1..Len(collapsed) |-> collapsed[i] \notin Punctuation]
    IN  Trim(Filter(collapsed, notPunct))

normalizeText(text) ==
    LET lowered == LowerCase(text)
        notPunct == [i \in 1..Len(lowered) |-> lowered[i] \notin Punctuation]
    IN  Trim(CollapseSpaces(Filter(lowered, notPunct)))

\* new RegExp(pattern): whether the pattern compiles.  Of the characters that
\* normalizeText leaves in a keyword and that a regular expression reads as
\* syntax, the model has "[", which opens a character class that nothing in
\* the pattern `\b<keyword>\b` closes.
RegExpCompiles(pattern) == \A i \in 1..Len(pattern) : pattern[i] # "["

\* The assertion \b before position p (1..Len(text)+1) of text.
WordBoundary(text, p) ==
    LET before == p > 1 /\ IsWordChar(text[p - 1])
        after == p <= Len(text) /\ IsWordChar(text[p])
    IN  before # after

\* Whether /\b<pattern>\b/i matches text at position p; pattern is literal.
MatchesAt(text, pattern, p) ==
    /\ p + Len(pattern) - 1 <= Len(text)
    /\ WordBoundary(text, p)
    /\ \A i \in 1..Len(pattern) : toLowerCase(text[p + i - 1]) = toLowerCase(pattern[i])
    /\ WordBoundary(text, p + Len(pattern))

\* The matches from position p on.  The search goes on behind a match, or one
\* position further when the match is empty; the recursion is over matches.
RECURSIVE MatchFrom(_, _, _)
MatchFrom(text, pattern, p) ==
    IF \A q \in p..(Len(text) + 1) : ~MatchesAt(text, pattern, q) THEN <<>>
    ELSE LET q == CHOOSE q \in p..(Len(text) + 1) :
                      /\ MatchesAt(text, pattern, q)
                      /\ \A r \in p..(q - 1) : ~MatchesAt(text, pattern, r)
         IN  <<SubSeq(text, q, q + Len(pattern) - 1)>>
             \o MatchFrom(text, pattern, IF Len(pattern) = 0 THEN q + 1 ELSE q + Len(pattern))

\* text.match(new RegExp(`\\b${pattern}\\b`, 'gi')) || []: the matches from
\* left to right, none overlapping another.
MatchWholeWord(text, pattern) == MatchFrom(text, pattern, 1)

\* Whether the window at position i (0-based) holds the keyword (line 41-42).
WindowMatches(words, keywordWords, normalizedKeyword, i) ==
    LET possibleMatch == Join(Slice(words, i, i + Len(keywordWords)), <<" ">>)
    IN  possibleMatch = normalizedKeyword

\* The loop of findKeywordOccurrences from window position i (0-based) on;
\* originalTokens is text.split(/\s+/), which the code takes anew at each
\* match.  The recursion is over the positions that match.
RECURSIVE WindowsFrom(_, _, _, _, _)
WindowsFrom(originalTokens, words, keywordWords, normalizedKeyword, i) ==
    LET last == Len(words) - Len(keywordWords)
    IN  IF \A m \in i..last : ~WindowMatches(words, keywordWords, normalizedKeyword, m)
        THEN <<>>
        ELSE LET m == CHOOSE m \in i..last :
                          /\ WindowMatches(words, keywordWords, normalizedKeyword, m)
                          /\ \A r \in i..(m - 1) :
                                ~WindowMatches(words, keywordWords, normalizedKeyword, r)
                 originalTextMatch ==
                     Join(Slice(originalTokens, m, m + Len(keywordWords)), <<" ">>)
             IN  <<originalTextMatch>>
                 \o WindowsFrom(originalTokens, words, keywordWords, normalizedKeyword, m + 1)

\* findKeywordOccurrences with the window loop started at 1.
findKeywordOccurrences_FromOne(text, keyword) ==
    LET normalizedText == normalizeText(text)
        normalizedKeyword == normalizeText(keyword)
        words == SplitChar(normalizedText, " ")
        keywordWords == SplitChar(normalizedKeyword, " ")
    IN  IF Len(keywordWords) = 1
        THEN IF RegExpCompiles(normalizedKeyword)
             THEN Returned(MatchWholeWord(text, normalizedKeyword))
             ELSE Threw("SyntaxError")
        ELSE Returned(WindowsFrom(SplitSpaces(text), words, keywordWords, normalizedKeyword, 1))

findKeywordOccurrences(text, keyword) ==
    LET normalizedText == normalizeText(text)
        normalizedKeyword == normalizeText(keyword)
        words == SplitChar(normalizedText, " ")
        keywordWords == SplitChar(normalizedKeyword, " ")
    IN  IF Len(keywordWords) = 1
        THEN IF RegExpCompiles(normalizedKeyword)
             THEN Returned(MatchWholeWord(text, normalizedKeyword))
             ELSE Threw("SyntaxError")
        ELSE Returned(WindowsFrom(SplitSpaces(text), words, keywordWords, normalizedKeyword, 0))

\* A quotient the code computes, kept exact.
Fraction(n, d) == [num |-> n, den |-> d]

\* calculateSimilarity without toLowerCase.
calculateSimilarity_CaseSensitive(a, b) ==
    LET set1 == Range(SplitChar(a, " "))
        set2 == Range(SplitChar(b, " "))
    IN  Fraction(Cardinality(set1 \cap set2), Cardinality(set1 \cup set2))

calculateSimilarity(a, b) ==
    LET set1 == Range(SplitChar(LowerCase(a), " "))
        set2 == Range(SplitChar(LowerCase(b), " "))
        intersection == {x \in set1 : x \in set2}
        union == set1 \cup set2
    IN  Fraction(Cardinality(intersection), Cardinality(union))

\* similarity > 0.3 with the threshold included.
IsCompeting_Inclusive(similarity) == 10 * similarity.num >= 3 * similarity.den

\* similarity > 0.3, the 30% threshold of analyzeKeywordRelationships.
IsCompeting(similarity) == 10 * similarity.num > 3 * similarity.den

\* The index pairs (i, j), 0-based, in the order the two loops of
\* analyzeKeywordRelationships reach them.
RECURSIVE PairsFrom(_, _, _)
PairsFrom(n, i, j) ==
    IF i >= n THEN <<>>
    ELSE IF j >= n THEN PairsFrom(n, i + 1, i + 2)
    ELSE <<<<i, j>>>> \o PairsFrom(n, i, j + 1)

\* A line of the log: the @clack/prompts level, the fixed text of the message
\* and the values the template puts into it.
LineWith(level, message, params) == [level |-> level, message |-> message, params |-> params]
Line(level, message) == LineWith(level, message, <<>>)

analyzeKeywordRelationships(kws) ==
    LET evaluated == PairsFrom(Len(kws), 0, 1)
        value(p) == calculateSimilarity(kws[p[1] + 1], kws[p[2] + 1])
        pushed == [n \in 1..Len(evaluated) |-> IsCompeting(value(evaluated[n]))]
        kept == Filter(evaluated, pushed)
        similarities ==
            [n \in 1..Len(kept) |->
                <<kws[kept[n][1] + 1], kws[kept[n][2] + 1], value(kept[n])>>]
        header == <<Line("info", "Keyword Relationship Analysis:")>>
        report ==
            IF Len(similarities) > 0
            THEN <<Line("warn", "Potentially competing keywords found:")>>
                 \o [n \in 1..Len(similarities) |-> LineWith("warn", "are similar", similarities[n])]
                 \o <<Line("info", "Consider focusing on more distinct keywords to avoid keyword cannibalization")>>
            ELSE <<Line("success", "Keywords are sufficiently distinct from each other")>>
    IN  [evaluated |-> evaluated, similarities |-> similarities, log |-> header \o report]

\* countKeywordInText is not called; analyzeKeyword takes the length itself.
Count(outcome) == Len(outcome.value)

\* The elements of the body with one of the given tags, in document order:
\* document.querySelectorAll(tag).
QuerySelectorAll(document, tag) ==
    LET is(n) == n.tag = tag
    IN  SelectSeq(document.body, is)

\* document.body.textContent: the texts of the body's nodes put end to end.
BodyTextContent(document) ==
    Join([n \in 1..Len(document.body) |-> document.body[n].text], <<>>)

\* option?.textContent || '' for an element that may be missing.
TextOrEmpty(elements) == IF Len(elements) = 0 THEN <<>> ELSE elements[1]

\* The reduce over the headings of one level stopped after the first heading.
HeadingCount_FirstOnly(elements, keyword, n) ==
    IF Len(elements) = 0 THEN 0
    ELSE Len(findKeywordOccurrences(elements[1].text, keyword).value)

\* The reduce of analyzeKeyword over the headings of one level.
RECURSIVE HeadingCount(_, _, _)
HeadingCount(elements, keyword, n) ==
    IF n > Len(elements) THEN 0
    ELSE Count(findKeywordOccurrences(elements[n].text, keyword))
         + HeadingCount(elements, keyword, n + 1)

\* s.replace(/\s+/g, '-')
HyphenateSpaces(s) ==
    LET c == CollapseSpaces(s)
    IN  [i \in 1..Len(c) |-> IF c[i] = " " THEN "-" ELSE c[i]]

\* s.includes(part)
Includes(s, part) ==
    \E p \in 1..(Len(s) + 1) :
        p + Len(part) - 1 <= Len(s) /\ SubSeq(s, p, p + Len(part) - 1) = part

\* analyzeKeyword with the keyword's words counted after normalization.
analyzeKeyword_NormalizedWordCount(document, keyword) ==
    LET bodyText == BodyTextContent(document)
        wordCount == Len(SplitSpaces(normalizeText(bodyText)))
        occurrences == findKeywordOccurrences(bodyText, keyword)
        keywordCount == Count(occurrences)
        keywordWordCount == Len(SplitSpaces(normalizeText(keyword)))
    IN  IF occurrences.status = "threw" THEN occurrences
        ELSE Returned([density |-> Fraction(keywordCount * keywordWordCount * 100, wordCount),
                       count |-> keywordCount,
                       inTitle |-> Count(findKeywordOccurrences(TextOrEmpty(document.title), keyword)) > 0,
                       inFirstParagraph |->
                           Count(findKeywordOccurrences(
                               TextOrEmpty([n \in 1..Len(QuerySelectorAll(document, "p")) |->
                                               QuerySelectorAll(document, "p")[n].text]), keyword)) > 0,
                       inHeadings |-> [h1 |-> HeadingCount(QuerySelectorAll(document, "h1"), keyword, 1),
                                       h2 |-> HeadingCount(QuerySelectorAll(document, "h2"), keyword, 1),
                                       h3 |-> HeadingCount(QuerySelectorAll(document, "h3"), keyword, 1)],
                       inMetaDescription |->
                           Count(findKeywordOccurrences(TextOrEmpty(document.metaDescription), keyword)) > 0,
                       inUrl |-> Includes(normalizeText(document.pathname),
                                          HyphenateSpaces(normalizeText(keyword))),
                       occurrences |-> occurrences.value])

\* Every call of findKeywordOccurrences in analyzeKeyword has the same
\* keyword, so the first call (on the body text) throws iff any does.
analyzeKeyword(document, keyword) ==
    LET bodyText == BodyTextContent(document)
        wordCount == Len(SplitSpaces(normalizeText(bodyText)))
        occurrences == findKeywordOccurrences(bodyText, keyword)
        keywordCount == Count(occurrences)
        keywordWordCount == Len(SplitSpaces(keyword))
        \* (keywordCount * keywordWordCount) / wordCount * 100
        density == Fraction(keywordCount * keywordWordCount * 100, wordCount)
        title == TextOrEmpty(document.title)
        inTitle == Count(findKeywordOccurrences(title, keyword)) > 0
        paragraphs == QuerySelectorAll(document, "p")
        firstParagraph == TextOrEmpty([n \in 1..Len(paragraphs) |-> paragraphs[n].text])
        inFirstParagraph == Count(findKeywordOccurrences(firstParagraph, keyword)) > 0
        h1Count == HeadingCount(QuerySelectorAll(document, "h1"), keyword, 1)
        h2Count == HeadingCount(QuerySelectorAll(document, "h2"), keyword, 1)
        h3Count == HeadingCount(QuerySelectorAll(document, "h3"), keyword, 1)
        metaDescription == TextOrEmpty(document.metaDescription)
        inMetaDescription == Count(findKeywordOccurrences(metaDescription, keyword)) > 0
        url == document.pathname
        urlKeyword == HyphenateSpaces(normalizeText(keyword))
        inUrl == Includes(normalizeText(url), urlKeyword)
    IN  IF occurrences.status = "threw" THEN occurrences
        ELSE Returned([density |-> density,
                       count |-> keywordCount,
                       inTitle |-> inTitle,
                       inFirstParagraph |-> inFirstParagraph,
                       inHeadings |-> [h1 |-> h1Count, h2 |-> h2Count, h3 |-> h3Count],
                       inMetaDescription |-> inMetaDescription,
                       inUrl |-> inUrl,
                       occurrences |-> occurrences.value])

\* analysis.density < 0.5 with the bound included.
DensityTooLow_Inclusive(density) == 2 * density.num <= density.den

\* analysis.density < 0.5 (lines 153 and 215); the denominator is positive.
DensityTooLow(density) == 2 * density.num < density.den

\* analysis.density > 2.5 (lines 155 and 217).
DensityTooHigh(density) == 2 * density.num > 5 * density.den

\* The lines a condition chooses between.
Either(cond, yes, no) == IF cond THEN <<yes>> ELSE <<no>>
When(cond, line) == IF cond THEN <<line>> ELSE <<>>

displayResults(analysis, keyword) ==
    LET h == analysis.inHeadings
        recommendations ==
            When(analysis.count = 0, "Add the keyword to your content")
            \o When(~analysis.inTitle /\ h.h1 = 0, "Include keyword in title or H1 heading")
            \o When(~analysis.inFirstParagraph, "Add keyword to the first paragraph")
            \o When(~analysis.inMetaDescription, "Include keyword in meta description")
            \o (IF DensityTooLow(analysis.density)
                 THEN <<"Increase keyword usage naturally throughout the content">>
                 ELSE When(DensityTooHigh(analysis.density),
                           "Reduce keyword usage to avoid over-optimization"))
        log ==
            <<Line("step", "Keyword Analysis Results:")>>
            \o (IF analysis.count > 0
                 THEN <<LineWith("success", "Found keyword occurrences", <<analysis.count>>),
                        Line("info", "Keyword locations:")>>
                      \o [n \in 1..Len(analysis.occurrences) |->
                              LineWith("info", "occurrence", <<n, analysis.occurrences[n]>>)]
                 ELSE <<Line("error", "No keyword occurrences found")>>)
            \o <<Line("step", "Keyword Density:"),
                  LineWith("info", "Current density", <<analysis.density>>)>>
            \o (IF DensityTooLow(analysis.density)
                 THEN <<Line("warn", "Density is too low (aim for 0.5% - 2.5%)")>>
                 ELSE Either(DensityTooHigh(analysis.density),
                             Line("warn", "Density is too high (possible keyword stuffing)"),
                             Line("success", "Density is optimal")))
            \o <<Line("step", "Key Element Checks:")>>
            \o Either(analysis.inTitle, Line("success", "Found in title"),
                       Line("warn", "Missing from title"))
            \o Either(analysis.inFirstParagraph, Line("success", "Found in first paragraph"),
                       Line("warn", "Missing from first paragraph"))
            \o <<Line("step", "Heading Usage:"),
                  LineWith("info", "H1 headings", <<h.h1>>),
                  LineWith("info", "H2 headings", <<h.h2>>),
                  LineWith("info", "H3 headings", <<h.h3>>)>>
            \o When(h.h1 + h.h2 + h.h3 = 0, Line("warn", "Not found in any headings"))
            \o Either(analysis.inMetaDescription, Line("success", "Found in meta description"),
                       Line("warn", "Missing from meta description"))
            \o Either(analysis.inUrl, Line("success", "Found in URL"),
                       Line("info", "Consider including in URL"))
            \o (IF Len(recommendations) > 0
                 THEN <<Line("step", "Recommendations:")>>
                      \o [n \in 1..Len(recommendations) |-> Line("warn", recommendations[n])]
                 ELSE <<Line("success", "Content is well-optimized for the focus keyword")>>)
    IN  [log |-> log, recommendations |-> recommendations]

(***************************************************************************)
(* JavaScript numbers                                                      *)
(*                                                                         *)
(* A number is a fraction in lowest terms, NaN, Infinity or -Infinity.     *)
(* The operations follow IEEE 754 on the non-finite values and are exact   *)
(* on the finite ones.                                                     *)
(***************************************************************************)
Abs(n) == IF n < 0 THEN -n ELSE n
Sign(n) == IF n < 0 THEN -1 ELSE IF n > 0 THEN 1 ELSE 0

RECURSIVE GCD(_, _)
GCD(a, b) == IF b = 0 THEN a ELSE GCD(b, a % b)

\* The fraction n / d, d # 0, in lowest terms with a positive denominator.
Finite(n, d) ==
    LET g == GCD(Abs(n), Abs(d))
    IN  [kind |-> "finite", num |-> Sign(d) * (n \div g), den |-> Abs(d) \div g]

Number(n) == [kind |-> "finite", num |-> n, den |-> 1]
NaN == [kind |-> "NaN", num |-> 0, den |-> 1]
\* Infinity (sign 1) and -Infinity (sign -1).
Infinite(sign) == [kind |-> "Infinity", num |-> sign, den |-> 1]

IsFinite(x) == x.kind = "finite"

\* x * y
Times(x, y) ==
    IF x.kind = "NaN" \/ y.kind = "NaN" THEN NaN
    ELSE IF x.kind = "Infinity" \/ y.kind = "Infinity"
         THEN IF x.num = 0 \/ y.num = 0 THEN NaN ELSE Infinite(Sign(x.num) * Sign(y.num))
    ELSE Finite(x.num * y.num, x.den * y.den)

\* x / y; a zero divisor is +0, as every zero of this program is.
Divide(x, y) ==
    IF x.kind = "NaN" \/ y.kind = "NaN" THEN NaN
    ELSE IF x.kind = "Infinity"
         THEN IF y.kind = "Infinity" THEN NaN
              ELSE Infinite(x.num * (IF y.num < 0 THEN -1 ELSE 1))
    ELSE IF y.kind = "Infinity" THEN Number(0)
    ELSE IF y.num = 0
         THEN IF x.num = 0 THEN NaN ELSE Infinite(Sign(x.num))
    ELSE Finite(x.num * y.den, x.den * y.num)

\* x + y
Plus(x, y) ==
    IF x.kind = "NaN" \/ y.kind = "NaN" THEN NaN
    ELSE IF x.kind = "Infinity"
         THEN IF y.kind = "Infinity" /\ y.num # x.num THEN NaN ELSE x
    ELSE IF y.kind = "Infinity" THEN y
    ELSE Finite(x.num * y.den + y.num * x.den, x.den * y.den)

\* x - y
Minus(x, y) == Plus(x, [y EXCEPT !.num = -y.num])

\* x < y and x > y; false when either is NaN.
LessThan(x, y) ==
    /\ x.kind # "NaN" /\ y.kind # "NaN"
    /\ IF x.kind = "Infinity" THEN x.num < 0 /\ y # x
       ELSE IF y.kind = "Infinity" THEN y.num > 0
       ELSE x.num * y.den < y.num * x.den
GreaterThan(x, y) == LessThan(y, x)
AtLeast(x, y) == x.kind # "NaN" /\ y.kind # "NaN" /\ ~LessThan(x, y)

\* Whether a number is truthy: neither 0 nor NaN.
Truthy(x) == x.kind # "NaN" /\ x.num # 0

\* Math.round(x): the nearest integer, halves upwards; NaN and the
\* infinities are returned as they are.
Round(x) ==
    IF IsFinite(x) THEN Number((2 * x.num + x.den) \div (2 * x.den)) ELSE x

(***************************************************************************)
(* The content analyzer: readability metrics                               *)
(***************************************************************************)
\* s.split(re) for a regular expression re that matches the runs of the
\* characters of seps: a run at the start or the end of s gives an empty
\* first or last part.
SplitRuns(s, seps) ==
    LET first == [i \in 1..Len(s) |-> s[i] \notin seps \/ i = 1 \/ s[i - 1] \notin seps]
        kept == Filter(s, first)
        at(i) == kept[i] \in seps
        cuts == <<0>> \o SelectSeq([i \in 1..Len(kept) |-> i], at) \o <<Len(kept) + 1>>
    IN  [j \in 1..(Len(cuts) - 1) |-> SubSeq(kept, cuts[j] + 1, cuts[j + 1] - 1)]

\* text.split(/\s+/).filter(word => word.length > 0)
WordsOf(text) ==
    LET parts == SplitSpaces(text)
    IN  Filter(parts, [i \in 1..Len(parts) |-> Len(parts[i]) > 0])

\* The sentences with the blank segments kept.
SentencesOf_NoTrim(text) ==
    LET parts == SplitRuns(text, {".", "!", "?"})
    IN  Filter(parts, [i \in 1..Len(parts) |-> Len(parts[i]) > 0])

\* text.split(/[.!?]+/).filter(sentence => sentence.trim().length > 0)
SentencesOf(text) ==
    LET parts == SplitRuns(text, {".", "!", "?"})
    IN  Filter(parts, [i \in 1..Len(parts) |-> Len(Trim(parts[i])) > 0])

Vowels == {"a", "e", "i", "o", "u", "y"}

\* The suffix replace with "l" out of the character class, and "ed" removed
\* only behind a character of the class.
DropSuffix_AfterConsonant(word) ==
    LET n == Len(word)
        other(c) == c \notin {"a", "e", "i", "o", "u", "y"}
    IN  IF n >= 3 /\ other(word[n - 2]) /\ word[n - 1] = "e" /\ word[n] \in {"s", "d"}
        THEN SubSeq(word, 1, n - 3)
        ELSE IF n >= 2 /\ other(word[n - 1]) /\ word[n] = "e" THEN SubSeq(word, 1, n - 2)
        ELSE word

\* word.replace(/(?:[^laeiouy]es|ed|[^laeiouy]e)$/, ''): the leftmost match
\* that reaches the end of the word is removed.
DropSuffix(word) ==
    LET n == Len(word)
        other(c) == c \notin (Vowels \cup {"l"})
    IN  IF n >= 3 /\ other(word[n - 2]) /\ word[n - 1] = "e" /\ word[n] = "s"
        THEN SubSeq(word, 1, n - 3)
        ELSE IF n >= 2 /\ word[n - 1] = "e" /\ word[n] = "d" THEN SubSeq(word, 1, n - 2)
        ELSE IF n >= 2 /\ other(word[n - 1]) /\ word[n] = "e" THEN SubSeq(word, 1, n - 2)
        ELSE word

\* The number of matches of /[aeiouy]{1,2}/g: a match starts at every
\* vowel that an even number of vowels precede in its run.
VowelPairs(word) ==
    LET runStart(i) == CHOOSE j \in 1..i :
                           /\ \A k \in j..i : word[k] \in Vowels
                           /\ (j = 1 \/ word[j - 1] \notin Vowels)
    IN  Cardinality({i \in 1..Len(word) : word[i] \in Vowels /\ (i - runStart(i)) % 2 = 0})

countWordSyllables(w) ==
    LET lowered == LowerCase(w)
        letters == Filter(lowered, [i \in 1..Len(lowered) |-> lowered[i] \in Range(LowerLetters)])
        stem == DropSuffix(letters)
        word == IF Len(stem) > 0 /\ stem[1] = "y" THEN Tail(stem) ELSE stem
        syllables == VowelPairs(word)
    IN  IF Len(letters) <= 3 THEN 1
        ELSE IF syllables > 0 THEN syllables ELSE 1

\* The reduce of countSyllables and the counting filters of calculateMetrics.
RECURSIVE SumOf(_, _)
SumOf(f, n) == IF n = 0 THEN 0 ELSE f[n] + SumOf(f, n - 1)

countSyllables(text) ==
    LET words == SplitSpaces(LowerCase(text))
    IN  SumOf([i \in 1..Len(words) |-> countWordSyllables(words[i])], Len(words))

\* The number of words longer than a given length.
LongerThan(words, length) == Cardinality({i \in 1..Len(words) : Len(words[i]) > length})

calculateLIX(text) ==
    LET words == WordsOf(text)
        sentences == SentencesOf(text)
        longWords == LongerThan(words, 6)
    IN  Plus(Divide(Number(Len(words)), Number(Len(sentences))),
             Divide(Number(longWords * 100), Number(Len(words))))

calculateMetrics(text, language) ==
    LET words == WordsOf(text)
        sentences == SentencesOf(text)
        totalSyllables == countSyllables(text)
        complexWords == Cardinality({i \in 1..Len(words) : countWordSyllables(words[i]) > 2})
        totalWords == Len(words)
        totalSentences == Len(sentences)
        averageWordsPerSentence == Divide(Number(totalWords), Number(totalSentences))
        averageSyllablesPerWord == Divide(Number(totalSyllables), Number(totalWords))
        chars == Len(Filter(text, [i \in 1..Len(text) |-> ~IsSpace(text[i])]))
        averageCharsPerWord == Divide(Number(chars), Number(totalWords))
    IN  [fleschEase |->
             Minus(Minus(Finite(206835, 1000), Times(Finite(1015, 1000), averageWordsPerSentence)),
                   Times(Finite(846, 10), averageSyllablesPerWord)),
         fleschKincaid |->
             Minus(Plus(Times(Finite(39, 100), averageWordsPerSentence),
                        Times(Finite(118, 10), averageSyllablesPerWord)),
                   Finite(1559, 100)),
         gunningFog |->
             Times(Finite(4, 10),
                   Plus(averageWordsPerSentence,
                        Times(Number(100), Divide(Number(complexWords), Number(totalWords))))),
         colemanLiau |->
             Minus(Minus(Times(Finite(588, 10000), Times(averageCharsPerWord, Number(100))),
                         Times(Finite(296, 1000),
                               Times(Divide(Number(totalSentences), Number(totalWords)),
                                     Number(100)))),
                   Finite(158, 10)),
         averageWordsPerSentence |-> averageWordsPerSentence,
         averageSyllablesPerWord |-> averageSyllablesPerWord,
         totalWords |-> totalWords,
         totalSentences |-> totalSentences,
         complexWords |-> complexWords,
         lix |-> calculateLIX(text),
         longWords |-> LongerThan(words, 15)]

getReadabilityGrade(score) ==
    IF AtLeast(score, Number(90)) THEN "Very Easy (5th grade)"
    ELSE IF AtLeast(score, Number(80)) THEN "Easy (6th grade)"
    ELSE IF AtLeast(score, Number(70)) THEN "Fairly Easy (7th grade)"
    ELSE IF AtLeast(score, Number(60)) THEN "Standard (8th-9th grade)"
    ELSE IF AtLeast(score, Number(50)) THEN "Fairly Difficult (10th-12th grade)"
    ELSE IF AtLeast(score, Number(30)) THEN "Difficult (College)"
    ELSE "Very Difficult (College graduate)"

getLIXGrade(score) ==
    IF LessThan(score, Number(30)) THEN "Very Easy"
    ELSE IF LessThan(score, Number(40)) THEN "Easy"
    ELSE IF LessThan(score, Number(50)) THEN "Moderate"
    ELSE IF LessThan(score, Number(60)) THEN "Difficult"
    ELSE "Very Difficult"

Swedish == <<"s", "v">>

getReadabilityRecommendations(metrics, language) ==
    IF language = Swedish
    THEN When(GreaterThan(metrics.averageWordsPerSentence, Number(15)),
              "Consider shortening your sentences (aim for 15 words per sentence for Swedish text)")
         \o When(Truthy(metrics.lix) /\ GreaterThan(metrics.lix, Number(50)),
                 "Text might be too difficult for general audience (aim for LIX below 50)")
    ELSE When(GreaterThan(metrics.averageWordsPerSentence, Number(20)),
              "Consider shortening your sentences (aim for 15-20 words per sentence)")
         \o When(GreaterThan(Divide(Number(metrics.complexWords), Number(metrics.totalWords)),
                             Finite(2, 10)),
                 "Try using simpler words (too many complex words)")
         \o When(Truthy(metrics.fleschEase) /\ LessThan(metrics.fleschEase, Number(60)),
                 "Content might be too difficult for general audience (aim for score above 60)")

(***************************************************************************)
(* The content analyzer: analyzeContent                                    *)
(***************************************************************************)
\* The thresholds of analyzeContent: a paragraph of more words is long, and
\* so is a sentence of more words.
LongParagraph == 40
LongSentence == 20

English == <<"e", "n">>

\* document.documentElement.lang.toLowerCase().split('-')[0] || 'en'
LanguageOf(document) ==
    LET tag == SplitChar(LowerCase(document.lang), "-")[1]
    IN  IF Len(tag) = 0 THEN English ELSE tag

\* The sentences of a paragraph text (line 179).
ParagraphSentences(document, i) == SentencesOf(Trim(document.paragraphs[i]))

\* improveText: the text of the completion, or the given text when the
\* completion has none; a failed request throws.
improveText(text, completion) ==
    IF completion.status = "threw" THEN completion
    ELSE Returned(IF Len(completion.value) = 0 THEN text ELSE completion.value)

\* What the try and catch around an improveText call write to the log.
AdviceLines(outcome) ==
    IF outcome.status = "ok"
    THEN IF Len(outcome.value) > 0
         THEN <<Line("info", "Suggested improvement:"),
                LineWith("info", "improved text", <<outcome.value>>)>>
         ELSE <<>>
    ELSE <<LineWith("warn", "Could not generate improvement suggestion",
                    <<IF outcome.value.isError THEN outcome.value.message
                      ELSE "Unknown error">>)>>

\* The text of all paragraphs (lines 200-203).
FullText(document) ==
    LET trimmed == [i \in 1..Len(document.paragraphs) |-> Trim(document.paragraphs[i])]
    IN  Join(Filter(trimmed, [i \in 1..Len(trimmed) |-> Len(trimmed[i]) > 0]), <<" ">>)

\* The lines analyzeContent writes after the loop over the paragraphs
\* (lines 205-234).
ReadabilityReport(document) ==
    LET language == LanguageOf(document)
        metrics == calculateMetrics(FullText(document), language)
        percent(n) == Round(Times(Divide(Number(n), Number(metrics.totalWords)), Number(100)))
        recommendations == getReadabilityRecommendations(metrics, language)
    IN  <<Line("step", "Readability Analysis:")>>
        \o (IF language = Swedish
             THEN <<LineWith("info", "LIX Score",
                             <<Round(metrics.lix), getLIXGrade(metrics.lix)>>)>>
             ELSE <<LineWith("info", "Flesch Reading Ease",
                             <<Round(metrics.fleschEase), getReadabilityGrade(metrics.fleschEase)>>),
                    LineWith("info", "Flesch-Kincaid Grade Level", <<Round(metrics.fleschKincaid)>>),
                    LineWith("info", "Gunning Fog Index", <<Round(metrics.gunningFog)>>),
                    LineWith("info", "Coleman-Liau Index", <<Round(metrics.colemanLiau)>>)>>)
        \o <<Line("step", "Content Statistics:"),
              LineWith("info", "Total Words", <<Number(metrics.totalWords)>>),
              LineWith("info", "Total Sentences", <<Number(metrics.totalSentences)>>),
              LineWith("info", "Average Words per Sentence",
                       <<Divide(Round(Times(metrics.averageWordsPerSentence, Number(10))),
                                Number(10))>>)>>
        \o (IF language = Swedish
             THEN <<LineWith("info", "Long Words",
                             <<Number(metrics.longWords), percent(metrics.longWords)>>)>>
             ELSE <<LineWith("info", "Complex Words",
                             <<Number(metrics.complexWords), percent(metrics.complexWords)>>)>>)
        \o (IF Len(recommendations) > 0
             THEN <<Line("step", "Recommendations:")>>
                  \o [n \in 1..Len(recommendations) |-> Line("warn", recommendations[n])]
             ELSE <<>>)

(***************************************************************************)
(* The text functions applied to every text and keyword of bounded length  *)
(***************************************************************************)
MaxTextLen == 5
MaxKeywordLen == 3

\* The strings of at most n characters of the set chars.
Strings(chars, n) == UNION {[1..m -> chars] : m \in 0..n}

\* Letters in both cases, removed punctuation, a kept character that is no
\* word character, and two kinds of whitespace.
NormalizeChars == {"a", "A", "-", ".", "'", " ", "\t"}

\* The variables of the other functions, while one function is analysed.
TextIdle == txt = <<>> /\ kw = <<>> /\ norm = NotCalled /\ norm2 = NotCalled /\ occ = NotCalled
SimIdle == str1 = <<>> /\ str2 = <<>> /\ sim = NotCalled /\ simSwapped = NotCalled
RelIdle == keywords = <<>> /\ rel = NotCalled
KeywordIdle ==
    /\ doc = [title |-> <<>>, metaDescription |-> <<>>, pathname |-> <<>>, body |-> <<>>]
    /\ key = <<>>
    /\ analyzed = NotCalled
    /\ displayed = NotCalled
ContentIdle ==
    /\ page = [lang |-> <<>>, paragraphs |-> <<>>]
    /\ pc = "idle"
    /\ paragraphIndex = 0
    /\ sentenceIndex = 0
    /\ contentLog = <<>>
    /\ advisories = 0
UsageIdle ==
    /\ usageDocument = [title |-> <<>>, metaDescription |-> <<>>, pathname |-> <<>>, body |-> <<>>]
    /\ keywordsInput = <<>>
    /\ usagePc = "idle"
    /\ usageKeywords = <<>>
    /\ usageIndex = 0
    /\ usageAnalysis = NotCalled
    /\ usageLog = <<>>
    /\ calls = <<>>
ReadabilityIdle ==
    /\ sample = <<>>
    /\ counted = NotCalled
    /\ measured = NotCalled
    /\ lixScore = NotCalled
    /\ advised = NotCalled

AuditIdle ==
    /\ auditSource = "none"
    /\ auditPc = "idle"
    /\ chromeState = "none"
    /\ spinCalls = <<>>
    /\ runnerResult = [kind |-> "none", categories |-> <<>>]
    /\ auditLog = <<>>
    /\ auditOutcome = NotCalled

InitNormalize ==
    /\ txt \in Strings(NormalizeChars, MaxTextLen)
    /\ kw = <<>>
    /\ norm = NotCalled
    /\ norm2 = NotCalled
    /\ occ = NotCalled
    /\ SimIdle /\ RelIdle /\ KeywordIdle /\ ContentIdle /\ UsageIdle /\ ReadabilityIdle /\ AuditIdle

NormalizeText ==
    /\ norm.status = "none"
    /\ norm' = Returned(normalizeText(txt))
    /\ UNCHANGED <<txt, kw, norm2, occ, simVars, relVars, keywordVars, contentVars, usageVars, readabilityVars, auditVars>>

NormalizeAgain ==
    /\ norm.status = "ok"
    /\ norm2.status = "none"
    /\ norm2' = Returned(normalizeText(norm.value))
    /\ UNCHANGED <<txt, kw, norm, occ, simVars, relVars, keywordVars, contentVars, usageVars, readabilityVars, auditVars>>

NextNormalize == NormalizeText \/ NormalizeAgain

SpecNormalize == InitNormalize /\ [][NextNormalize]_vars

\* The number of tokens of a keyword, as findKeywordOccurrences counts them.
KeywordTokens(keyword) == Len(SplitChar(normalizeText(keyword), " "))

\* Texts for keywords of one token: letters in both cases, removed
\* punctuation, a kept character that is no word character, and the space.
\* The keywords may also hold a character that is regular expression syntax.
WordTextChars == {"a", "A", "-", "'", " "}
WordChars == WordTextChars \cup {"["}
MaxWordTextLen == 3
MaxWordLen == 2
WordKeywords == {k \in Strings(WordChars, MaxWordLen) : KeywordTokens(k) = 1}

\* Texts and keywords of several tokens.
PhraseChars == {"a", "A", "-", " "}
PhraseKeywords == {k \in Strings(PhraseChars, MaxKeywordLen) : KeywordTokens(k) > 1}

FindInputs ==
    (Strings(WordTextChars, MaxWordTextLen) \X WordKeywords)
    \cup (Strings(PhraseChars, MaxTextLen) \X PhraseKeywords)

InitFind ==
    /\ \E in \in FindInputs : txt = in[1] /\ kw = in[2]
    /\ norm = NotCalled
    /\ norm2 = NotCalled
    /\ occ = NotCalled
    /\ SimIdle /\ RelIdle /\ KeywordIdle /\ ContentIdle /\ UsageIdle /\ ReadabilityIdle /\ AuditIdle

FindKeywordOccurrences ==
    /\ occ.status = "none"
    /\ occ' = findKeywordOccurrences(txt, kw)
    /\ UNCHANGED <<txt, kw, norm, norm2, simVars, relVars, keywordVars, contentVars, usageVars, readabilityVars, auditVars>>

NextFind == FindKeywordOccurrences

SpecFind == InitFind /\ [][NextFind]_vars

(***************************************************************************)
(* calculateSimilarity applied to every pair of bounded keywords           *)
(***************************************************************************)
MaxSimilarityLen == 3

\* Two words, one of them in both cases, and the space that separates words.
SimilarityChars == {"a", "A", "b", " "}

InitSimilarity ==
    /\ str1 \in Strings(SimilarityChars, MaxSimilarityLen)
    /\ str2 \in Strings(SimilarityChars, MaxSimilarityLen)
    /\ sim = NotCalled
    /\ simSwapped = NotCalled
    /\ TextIdle /\ RelIdle /\ KeywordIdle /\ ContentIdle /\ UsageIdle /\ ReadabilityIdle /\ AuditIdle

CalculateSimilarity ==
    /\ sim.status = "none"
    /\ sim' = Returned(calculateSimilarity(str1, str2))
    /\ UNCHANGED <<str1, str2, simSwapped, textVars, relVars, keywordVars, contentVars, usageVars, readabilityVars, auditVars>>

CalculateSimilaritySwapped ==
    /\ simSwapped.status = "none"
    /\ simSwapped' = Returned(calculateSimilarity(str2, str1))
    /\ UNCHANGED <<str1, str2, sim, textVars, relVars, keywordVars, contentVars, usageVars, readabilityVars, auditVars>>

NextSimilarity == CalculateSimilarity \/ CalculateSimilaritySwapped

SpecSimilarity == InitSimilarity /\ [][NextSimilarity]_vars

(***************************************************************************)
(* analyzeKeywordRelationships applied to bounded keyword lists            *)
(***************************************************************************)
MaxKeywords == 3

\* Ten distinct one-letter words.
Vocabulary == <<"a", "b", "c", "d", "e", "f", "g", "h", "i", "j">>

\* The keyword made of the words of Vocabulary at the indices in S, in order.
PhraseOf(S) ==
    LET in(i) == i \in S
        picked == SelectSeq([i \in 1..Len(Vocabulary) |-> i], in)
    IN  Join([n \in 1..Len(picked) |-> <<Vocabulary[picked[n]]>>], <<" ">>)

\* Keywords whose pairs have the similarities 0, 1/4, 3/10, 1/3, 1/2 and 1.
RelationshipKeywords ==
    {PhraseOf({1, 2}), PhraseOf({1, 3}), PhraseOf({1, 3, 4}), PhraseOf({5}),
     PhraseOf(1..7), PhraseOf({1, 2, 3, 8, 9, 10}), <<"A", " ", "b">>}

InitRelationships ==
    /\ keywords \in UNION {[1..n -> RelationshipKeywords] : n \in 0..MaxKeywords}
    /\ rel = NotCalled
    /\ TextIdle /\ SimIdle /\ KeywordIdle /\ ContentIdle /\ UsageIdle /\ ReadabilityIdle /\ AuditIdle

\* analyzeKeywordUsage calls it for more than one keyword (line 81).
AnalyzeKeywordRelationships ==
    /\ rel.status = "none"
    /\ Len(keywords) > 1
    /\ rel' = Returned(analyzeKeywordRelationships(keywords))
    /\ UNCHANGED <<keywords, textVars, simVars, keywordVars, contentVars, usageVars, readabilityVars, auditVars>>

NextRelationships == AnalyzeKeywordRelationships

SpecRelationships == InitRelationships /\ [][NextRelationships]_vars

(***************************************************************************)
(* analyzeKeyword and displayResults applied to bounded documents          *)
(***************************************************************************)
MaxNodes == 2
MaxBodyWords == 201
MaxOccurrences == 2

\* An element of the body: its tag and its text content.
Node(tag, text) == [tag |-> tag, text |-> text]

NodeTags == {"p", "h1", "h2", "h3"}
NodeTexts == {<<>>, <<"a">>, <<"A", " ", "a">>, <<"a", "a">>, <<"-", " ", "a">>}

\* The title, the meta description and the path of the page.  A missing
\* title or meta element is the empty sequence of elements.
Heads ==
    {[title |-> <<>>, metaDescription |-> <<>>, pathname |-> <<>>],
     [title |-> <<<<"A">>>>, metaDescription |-> <<<<>>>>, pathname |-> <<"/">>],
     [title |-> <<<<"a", " ", "a">>>>, metaDescription |-> <<<<"a", ".">>>>,
      pathname |-> <<"/", "a", "-", "a">>]}

Page(head, body) ==
    [title |-> head.title, metaDescription |-> head.metaDescription,
     pathname |-> head.pathname, body |-> body]

\* Pages of a few short elements.
SmallDocuments ==
    {Page(head, body) : head \in Heads,
                        body \in UNION {[1..n -> {Node(tag, text) : tag \in NodeTags,
                                                                    text \in NodeTexts}] :
                                         n \in 0..MaxNodes}}

\* The text of `total` one-letter words, the first `hits` of them "a" and the
\* others "b", separated by single spaces.
PaddedText(hits, total) ==
    [i \in 1..(2 * total - 1) |->
        IF i % 2 = 0 THEN " " ELSE IF (i + 1) \div 2 <= hits THEN "a" ELSE "b"]

\* Pages whose body is one long paragraph.
LongDocuments ==
    {Page([title |-> <<>>, metaDescription |-> <<>>, pathname |-> <<>>],
          <<Node("p", PaddedText(hits, total))>>) :
        hits \in 0..MaxOccurrences, total \in 1..MaxBodyWords}

\* Keywords as analyzeKeywordUsage passes them: trimmed, not empty, no comma.
AnalysisKeywords ==
    {<<"a">>, <<"A">>, <<"a", "a">>, <<"a", " ", "a">>, <<"a", " ", "-">>, <<"-">>, <<"[">>}

InitKeyword ==
    /\ \/ doc \in SmallDocuments /\ key \in AnalysisKeywords
       \/ doc \in LongDocuments /\ key \in {<<"a">>, <<"a", " ", "a">>}
    /\ analyzed = NotCalled
    /\ displayed = NotCalled
    /\ TextIdle /\ SimIdle /\ RelIdle /\ ContentIdle /\ UsageIdle /\ ReadabilityIdle /\ AuditIdle

AnalyzeKeyword ==
    /\ analyzed.status = "none"
    /\ analyzed' = analyzeKeyword(doc, key)
    /\ UNCHANGED <<doc, key, displayed, textVars, simVars, relVars, contentVars, usageVars, readabilityVars, auditVars>>

\* analyzeKeywordUsage displays what analyzeKeyword returned (lines 76-77).
DisplayResults ==
    /\ analyzed.status = "ok"
    /\ displayed.status = "none"
    /\ displayed' = Returned(displayResults(analyzed.value, key))
    /\ UNCHANGED <<doc, key, analyzed, textVars, simVars, relVars, contentVars, usageVars, readabilityVars, auditVars>>

NextKeyword == AnalyzeKeyword \/ DisplayResults

SpecKeyword == InitKeyword /\ [][NextKeyword]_vars

(***************************************************************************)
(* analyzeContent applied to bounded documents, every improveText call     *)
(* returning or failing                                                    *)
(***************************************************************************)
MaxParagraphs == 2

\* A paragraph of n words "a", every per-th of them ending a sentence.
ParagraphOf(n, per) ==
    Join([i \in 1..n |-> IF i % per = 0 THEN <<"a", ".">> ELSE <<"a">>], <<" ">>)

CatText ==
    <<"T", "h", "e", " ", "c", "a", "t", " ", "s", "a", "t", ".", " ",
      "T", "h", "e", " ", "d", "o", "g", " ", "r", "a", "n", " ", "f", "a", "s", "t", ".">>

\* Paragraph texts: empty, without a sentence, short, with a long sentence,
\* long without a long sentence, and long with a long sentence.
ParagraphTexts ==
    {<<>>, <<".">>, CatText,
     ParagraphOf(LongSentence + 1, LongSentence + 1),
     ParagraphOf(LongParagraph + 1, LongSentence),
     ParagraphOf(LongParagraph + 1, LongSentence + 1)}

Languages == {<<>>, <<"S", "V", "-", "F", "I">>}

ContentDocuments ==
    {[lang |-> lang, paragraphs |-> paragraphs] :
        lang \in Languages,
        paragraphs \in UNION {[1..n -> ParagraphTexts] : n \in 0..MaxParagraphs}}

\* What the completion request of improveText can give: a text, no text, or
\* a thrown Error.
Completions ==
    {Returned(<<"o", "k">>), Returned(<<>>),
     Threw([isError |-> TRUE, message |-> "request failed"])}

InitContent ==
    /\ page \in ContentDocuments
    /\ pc = "start"
    /\ paragraphIndex = 0
    /\ sentenceIndex = 0
    /\ contentLog = <<>>
    /\ advisories = 0
    /\ TextIdle /\ SimIdle /\ RelIdle /\ KeywordIdle /\ UsageIdle /\ ReadabilityIdle /\ AuditIdle

\* analyzeContent without the return of line 153: the loop and the report
\* follow whatever the number of paragraphs.
AnalyzeContent_NoEarlyReturn ==
    /\ pc = "start"
    /\ contentLog' = (IF Len(page.paragraphs) = 0
                       THEN <<Line("warn", "No paragraph content found to analyze")>>
                       ELSE <<>>)
                      \o <<Line("step", "Content Structure Analysis:")>>
    /\ pc' = "paragraph"
    /\ paragraphIndex' = 1
    /\ UNCHANGED <<page, sentenceIndex, advisories, textVars, simVars, relVars, keywordVars, usageVars, readabilityVars, auditVars>>

\* Lines 148-156: without paragraphs analyzeContent warns and returns.
AnalyzeContent ==
    /\ pc = "start"
    /\ IF Len(page.paragraphs) = 0
       THEN /\ contentLog' = <<Line("warn", "No paragraph content found to analyze")>>
            /\ pc' = "done"
            /\ UNCHANGED paragraphIndex
       ELSE /\ contentLog' = <<Line("step", "Content Structure Analysis:")>>
            /\ pc' = "paragraph"
            /\ paragraphIndex' = 1
    /\ UNCHANGED <<page, sentenceIndex, advisories, textVars, simVars, relVars, keywordVars, usageVars, readabilityVars, auditVars>>

\* Lines 159-166: the next paragraph; an empty one is passed over, a long
\* one is reported and sent to improveText.
NextParagraph ==
    /\ pc = "paragraph"
    /\ paragraphIndex <= Len(page.paragraphs)
    /\ LET text == Trim(page.paragraphs[paragraphIndex])
           words == WordsOf(text)
       IN  IF Len(text) = 0
           THEN /\ paragraphIndex' = paragraphIndex + 1
                /\ UNCHANGED <<pc, sentenceIndex, contentLog>>
           ELSE IF Len(words) > LongParagraph
           THEN /\ contentLog' = Append(contentLog,
                                        LineWith("warn", "Paragraph is quite long",
                                                 <<paragraphIndex, Len(words)>>))
                /\ pc' = "improveParagraph"
                /\ UNCHANGED <<paragraphIndex, sentenceIndex>>
           ELSE /\ pc' = "sentence"
                /\ sentenceIndex' = 1
                /\ UNCHANGED <<paragraphIndex, contentLog>>
    /\ UNCHANGED <<page, advisories, textVars, simVars, relVars, keywordVars, usageVars, readabilityVars, auditVars>>

\* Lines 166-176: improveText returns or throws for the paragraph.
ImproveParagraph ==
    /\ pc = "improveParagraph"
    /\ \E completion \in Completions :
           contentLog' = contentLog
               \o AdviceLines(improveText(Trim(page.paragraphs[paragraphIndex]), completion))
    /\ advisories' = advisories + 1
    /\ pc' = "sentence"
    /\ sentenceIndex' = 1
    /\ UNCHANGED <<page, paragraphIndex, textVars, simVars, relVars, keywordVars, usageVars, readabilityVars, auditVars>>

\* Lines 179-184: the next sentence of the paragraph; a long one is
\* reported and sent to improveText.  After the last sentence the loop goes
\* on with the next paragraph.
NextSentence ==
    /\ pc = "sentence"
    /\ LET sentences == ParagraphSentences(page, paragraphIndex)
       IN  IF sentenceIndex > Len(sentences)
           THEN /\ pc' = "paragraph"
                /\ paragraphIndex' = paragraphIndex + 1
                /\ UNCHANGED <<sentenceIndex, contentLog>>
           ELSE LET sentence == Trim(sentences[sentenceIndex])
                    sentenceWords == Len(SplitSpaces(sentence))
                IN  IF sentenceWords > LongSentence
                    THEN /\ contentLog' = Append(contentLog,
                                                 LineWith("warn", "Long sentence",
                                                          <<paragraphIndex, sentenceWords, sentence>>))
                         /\ pc' = "improveSentence"
                         /\ UNCHANGED <<paragraphIndex, sentenceIndex>>
                    ELSE /\ sentenceIndex' = sentenceIndex + 1
                         /\ UNCHANGED <<pc, paragraphIndex, contentLog>>
    /\ UNCHANGED <<page, advisories, textVars, simVars, relVars, keywordVars, usageVars, readabilityVars, auditVars>>

\* The improveText call for a sentence without the catch of line 192: a
\* failure ends analyzeContent.
ImproveSentence_NoCatch ==
    /\ pc = "improveSentence"
    /\ \E completion \in Completions :
           LET outcome == improveText(
                   Trim(ParagraphSentences(page, paragraphIndex)[sentenceIndex]), completion)
           IN  /\ contentLog' = contentLog \o AdviceLines(outcome)
               /\ pc' = IF outcome.status = "threw" THEN "done" ELSE "sentence"
    /\ advisories' = advisories + 1
    /\ sentenceIndex' = sentenceIndex + 1
    /\ UNCHANGED <<page, paragraphIndex, textVars, simVars, relVars, keywordVars, usageVars, readabilityVars, auditVars>>

\* Lines 184-194: improveText returns or throws for the sentence.
ImproveSentence ==
    /\ pc = "improveSentence"
    /\ \E completion \in Completions :
           contentLog' = contentLog
               \o AdviceLines(improveText(
                      Trim(ParagraphSentences(page, paragraphIndex)[sentenceIndex]), completion))
    /\ advisories' = advisories + 1
    /\ pc' = "sentence"
    /\ sentenceIndex' = sentenceIndex + 1
    /\ UNCHANGED <<page, paragraphIndex, textVars, simVars, relVars, keywordVars, usageVars, readabilityVars, auditVars>>

\* Lines 199-234: after the last paragraph, the metrics of the whole text,
\* the statistics and the recommendations.
ReportReadability ==
    /\ pc = "paragraph"
    /\ paragraphIndex > Len(page.paragraphs)
    /\ contentLog' = contentLog \o ReadabilityReport(page)
    /\ pc' = "done"
    /\ UNCHANGED <<page, paragraphIndex, sentenceIndex, advisories,
                   textVars, simVars, relVars, keywordVars, usageVars, readabilityVars, auditVars>>

NextContent ==
    \/ AnalyzeContent
    \/ NextParagraph
    \/ ImproveParagraph
    \/ NextSentence
    \/ ImproveSentence
    \/ ReportReadability

SpecContent == InitContent /\ [][NextContent]_vars

(***************************************************************************)
(* analyzeKeywordUsage applied to bounded inputs                           *)
(***************************************************************************)
MaxInputLen == 4

\* keywordsInput.split(',').map(k => k.trim()).filter(k => k.length > 0)
SplitKeywords(input) ==
    LET parts == SplitChar(input, ",")
        trimmed == [i \in 1..Len(parts) |-> Trim(parts[i])]
    IN  Filter(trimmed, [i \in 1..Len(trimmed) |-> Len(trimmed[i]) > 0])

\* A call that analyzeKeywordUsage makes, with the keyword or keywords given.
Call(name, argument) == [call |-> name, argument |-> argument]

InputChars == {"a", "b", "[", ",", " "}

UsageDocuments ==
    {Page([title |-> <<>>, metaDescription |-> <<>>, pathname |-> <<>>], <<>>),
     Page([title |-> <<<<"A">>>>, metaDescription |-> <<<<"a", " ", "b">>>>,
           pathname |-> <<"/", "a">>],
          <<Node("h1", <<"a", " ", "b">>), Node("p", <<"A", " ", "b", " ", "a">>)>>)}

InitUsage ==
    /\ usageDocument \in UsageDocuments
    /\ keywordsInput \in Strings(InputChars, MaxInputLen)
    /\ usagePc = "start"
    /\ usageKeywords = <<>>
    /\ usageIndex = 0
    /\ usageAnalysis = NotCalled
    /\ usageLog = <<>>
    /\ calls = <<>>
    /\ TextIdle /\ SimIdle /\ RelIdle /\ KeywordIdle /\ ContentIdle /\ ReadabilityIdle /\ AuditIdle

\* analyzeKeywordUsage without the guard of lines 60-63.
AnalyzeKeywordUsage_NoGuard ==
    /\ usagePc = "start"
    /\ usageKeywords' = SplitKeywords(keywordsInput)
    /\ usageLog' = <<LineWith("info", "Analyzing keywords", <<Len(usageKeywords')>>)>>
    /\ usagePc' = "keyword"
    /\ usageIndex' = 1
    /\ UNCHANGED <<usageDocument, keywordsInput, usageAnalysis, calls,
                   textVars, simVars, relVars, keywordVars, contentVars, readabilityVars, auditVars>>

\* Lines 60-71: an input that is empty after trimming is reported and
\* nothing else is done; any other input is split into keywords.
AnalyzeKeywordUsage ==
    /\ usagePc = "start"
    /\ IF Len(Trim(keywordsInput)) = 0
       THEN /\ usageLog' = <<Line("error", "No keywords provided")>>
            /\ usagePc' = "done"
            /\ UNCHANGED <<usageKeywords, usageIndex>>
       ELSE /\ usageKeywords' = SplitKeywords(keywordsInput)
            /\ usageLog' = <<LineWith("info", "Analyzing keywords", <<Len(usageKeywords')>>)>>
            /\ usagePc' = "keyword"
            /\ usageIndex' = 1
    /\ UNCHANGED <<usageDocument, keywordsInput, usageAnalysis, calls,
                   textVars, simVars, relVars, keywordVars, contentVars, readabilityVars, auditVars>>

\* Lines 75-76: the next keyword is announced and analysed; what
\* analyzeKeyword throws leaves forEach and analyzeKeywordUsage.
AnalyzeNextKeyword ==
    /\ usagePc = "keyword"
    /\ usageIndex <= Len(usageKeywords)
    /\ LET keyword == usageKeywords[usageIndex]
       IN  /\ usageLog' = Append(usageLog,
                                 LineWith("info", "Analyzing keyword", <<usageIndex, keyword>>))
           /\ usageAnalysis' = analyzeKeyword(usageDocument, keyword)
           /\ calls' = Append(calls, Call("analyzeKeyword", keyword))
    /\ usagePc' = IF usageAnalysis'.status = "threw" THEN "threw" ELSE "display"
    /\ UNCHANGED <<usageDocument, keywordsInput, usageKeywords, usageIndex,
                   textVars, simVars, relVars, keywordVars, contentVars, readabilityVars, auditVars>>

\* Line 77: the analysis of the keyword is displayed.
DisplayKeywordResults ==
    /\ usagePc = "display"
    /\ LET keyword == usageKeywords[usageIndex]
       IN  /\ usageLog' = usageLog \o displayResults(usageAnalysis.value, keyword).log
           /\ calls' = Append(calls, Call("displayResults", keyword))
    /\ usageIndex' = usageIndex + 1
    /\ usagePc' = "keyword"
    /\ UNCHANGED <<usageDocument, keywordsInput, usageKeywords, usageAnalysis,
                   textVars, simVars, relVars, keywordVars, contentVars, readabilityVars, auditVars>>

\* Lines 80-84: after the last keyword, the relationships of more than one
\* keyword are analysed, and analyzeKeywordUsage returns.
FinishKeywordUsage ==
    /\ usagePc = "keyword"
    /\ usageIndex > Len(usageKeywords)
    /\ IF Len(usageKeywords) > 1
       THEN /\ usageLog' = usageLog \o analyzeKeywordRelationships(usageKeywords).log
            /\ calls' = Append(calls, Call("analyzeKeywordRelationships", usageKeywords))
       ELSE UNCHANGED <<usageLog, calls>>
    /\ usagePc' = "done"
    /\ UNCHANGED <<usageDocument, keywordsInput, usageKeywords, usageIndex, usageAnalysis,
                   textVars, simVars, relVars, keywordVars, contentVars, readabilityVars, auditVars>>

NextUsage ==
    \/ AnalyzeKeywordUsage
    \/ AnalyzeNextKeyword
    \/ DisplayKeywordResults
    \/ FinishKeywordUsage

SpecUsage == InitUsage /\ [][NextUsage]_vars

(***************************************************************************)
(* countWordSyllables applied to bounded words                             *)
(***************************************************************************)
MaxSyllableWordLen == 5

SyllableChars == {"a", "e", "y", "l", "b", "d", "s"}

Cat == <<"c", "a", "t">>
Banana == <<"b", "a", "n", "a", "n", "a">>
Beautiful == <<"B", "e", "a", "u", "t", "i", "-", "f", "u", "l">>

\* Words of letters with and without the suffixes, and three given words,
\* the last with an uppercase letter and a character that is no letter.
SyllableWords ==
    Strings(SyllableChars, MaxSyllableWordLen) \cup {Cat, Banana, Beautiful}

InitSyllables ==
    /\ sample \in SyllableWords
    /\ counted = NotCalled
    /\ measured = NotCalled
    /\ lixScore = NotCalled
    /\ advised = NotCalled
    /\ TextIdle /\ SimIdle /\ RelIdle /\ KeywordIdle /\ ContentIdle /\ UsageIdle /\ AuditIdle

CountWordSyllables ==
    /\ counted.status = "none"
    /\ counted' = Returned(countWordSyllables(sample))
    /\ UNCHANGED <<sample, measured, lixScore, advised,
                   textVars, simVars, relVars, keywordVars, contentVars, usageVars, auditVars>>

NextSyllables == CountWordSyllables

SpecSyllables == InitSyllables /\ [][NextSyllables]_vars

(***************************************************************************)
(* getReadabilityRecommendations applied to metrics around its thresholds  *)
(***************************************************************************)
\* Values of averageWordsPerSentence, lix and fleschEase at, below and
\* above the thresholds, and the non-finite values; word counts with the
\* share of complex words at, below and above 0.2, and without words.
SentenceLengths == {Number(15), Finite(31, 2), Number(20), Finite(41, 2), Infinite(1), NaN}
LixScores == {Number(0), Number(50), Finite(101, 2), Infinite(1), NaN}
FleschScores == {Infinite(-1), Number(-5), Number(0), Finite(119, 2), Number(60), Number(100), NaN}
WordCounts == {<<0, 0>>, <<0, 5>>, <<1, 5>>, <<1, 4>>, <<2, 5>>}
RecommendationLanguages == {Swedish, English, <<"d", "e">>}

\* The fields of ReadabilityMetrics that getReadabilityRecommendations reads.
MetricsSamples ==
    {[averageWordsPerSentence |-> a, lix |-> l, fleschEase |-> f,
      complexWords |-> w[1], totalWords |-> w[2]] :
        a \in SentenceLengths, l \in LixScores, f \in FleschScores, w \in WordCounts}

InitRecommendations ==
    /\ sample \in {[metrics |-> m, language |-> l] :
                      m \in MetricsSamples, l \in RecommendationLanguages}
    /\ counted = NotCalled
    /\ measured = NotCalled
    /\ lixScore = NotCalled
    /\ advised = NotCalled
    /\ TextIdle /\ SimIdle /\ RelIdle /\ KeywordIdle /\ ContentIdle /\ UsageIdle /\ AuditIdle

GetReadabilityRecommendations ==
    /\ advised.status = "none"
    /\ advised' = Returned(getReadabilityRecommendations(sample.metrics, sample.language))
    /\ UNCHANGED <<sample, counted, measured, lixScore,
                   textVars, simVars, relVars, keywordVars, contentVars, usageVars, auditVars>>

NextRecommendations == GetReadabilityRecommendations

SpecRecommendations == InitRecommendations /\ [][NextRecommendations]_vars

(***************************************************************************)
(* calculateMetrics and calculateLIX applied to bounded texts              *)
(***************************************************************************)
MaxMetricsTextLen == 5

MetricsChars == {"a", " ", "\t", ".", "!"}

\* A text with a word of more than 6 characters.
LongWordText == <<"a", "a", "a", "a", "a", "a", "a", " ", "a", "?", " ", "a">>

MetricsTexts == Strings(MetricsChars, MaxMetricsTextLen) \cup {CatText, LongWordText}

InitMetrics ==
    /\ sample \in {[text |-> t, language |-> English] : t \in MetricsTexts}
    /\ counted = NotCalled
    /\ measured = NotCalled
    /\ lixScore = NotCalled
    /\ advised = NotCalled
    /\ TextIdle /\ SimIdle /\ RelIdle /\ KeywordIdle /\ ContentIdle /\ UsageIdle /\ AuditIdle

CalculateMetrics ==
    /\ measured.status = "none"
    /\ measured' = Returned(calculateMetrics(sample.text, sample.language))
    /\ UNCHANGED <<sample, counted, lixScore, advised,
                   textVars, simVars, relVars, keywordVars, contentVars, usageVars, auditVars>>

CalculateLIX ==
    /\ lixScore.status = "none"
    /\ lixScore' = Returned(calculateLIX(sample.text))
    /\ UNCHANGED <<sample, counted, measured, advised,
                   textVars, simVars, relVars, keywordVars, contentVars, usageVars, auditVars>>

NextMetrics == CalculateMetrics \/ CalculateLIX

SpecMetrics == InitMetrics /\ [][NextMetrics]_vars

(***************************************************************************)
(* runLighthouseAudit: lighthouseAnalyzer.ts and the copy in index.ts      *)
(***************************************************************************)
\* The two functions of the name: the exported one, with a spinner and a try
\* around the audit, and the one of index.ts, with neither.
AuditSources == {"lighthouseAnalyzer", "index"}

\* The categories in the order both functions report them.
CategoryNames == <<"Performance", "Accessibility", "Best Practices", "SEO">>

\* category?.score: absent (no category, or a null score), or a number.
NoScore == [defined |-> FALSE, value |-> NaN]
Score(x) == [defined |-> TRUE, value |-> x]
ScoreValues ==
    {NoScore, Score(Number(0)), Score(Finite(49, 100)), Score(Finite(1, 2)),
     Score(Finite(9, 10))}

\* What the lighthouse call resolves with: undefined, a result without lhr,
\* an lhr without categories, or an lhr with the scores of the categories.
RunnerResults ==
    {[kind |-> k, categories |-> <<>>] : k \in {"undefined", "noLhr", "noCategories"}}
    \cup {[kind |-> "categories", categories |-> c] : c \in [1..Len(CategoryNames) -> ScoreValues]}

\* runnerResult?.lhr?.categories is truthy.
HasCategories(result) == result.kind = "categories"

\* if (!score): undefined, null, 0 and NaN are all falsy.
HasScore(score) == score.defined /\ Truthy(score.value)

\* Math.round(score * 100)
NumericScore(score) == Round(Times(score.value, Number(100)))

\* One round of the forEach of lighthouseAnalyzer.ts (lines 37-50).
ScoreLine(name, score) ==
    IF ~HasScore(score) THEN LineWith("warn", name, <<"N/A">>)
    ELSE IF AtLeast(NumericScore(score), Number(90))
         THEN LineWith("success", name, <<NumericScore(score)>>)
    ELSE IF AtLeast(NumericScore(score), Number(50))
         THEN LineWith("warn", name, <<NumericScore(score)>>)
    ELSE LineWith("error", name, <<NumericScore(score)>>)

\* The lines of lighthouseAnalyzer.ts after the categories are read.
ScoreLines(result) ==
    <<Line("step", "Lighthouse Scores:")>>
    \o [n \in 1..Len(CategoryNames) |-> ScoreLine(CategoryNames[n], result.categories[n])]

\* The lines of index.ts after the categories are read: all of level info
\* (the newlines and the pictogram of the heading are left out).
IndexScoreLines(result) ==
    <<Line("info", "Lighthouse Scores:")>>
    \o [n \in 1..Len(CategoryNames) |->
           LineWith("info", CategoryNames[n],
                    <<IF HasScore(result.categories[n])
                      THEN NumericScore(result.categories[n]) ELSE "N/A">>)]

SpinStart == [call |-> "start", message |-> "Running Lighthouse audit..."]
SpinStop(message) == [call |-> "stop", message |-> message]

\* What the catch of lighthouseAnalyzer.ts (lines 53-56) adds to the spinner
\* calls before it rethrows; index.ts has no catch and no spinner.
CatchStops == IF auditSource = "lighthouseAnalyzer" THEN <<SpinStop("Audit failed")>> ELSE <<>>

NoCategoriesError == [isError |-> TRUE, message |-> "Failed to get Lighthouse results"]
LaunchError == [isError |-> TRUE, message |-> "launch failed"]
LighthouseError == [isError |-> TRUE, message |-> "lighthouse failed"]
KillError == [isError |-> TRUE, message |-> "kill failed"]

InitLighthouse ==
    /\ auditSource \in AuditSources
    /\ auditPc = "start"
    /\ chromeState = "none"
    /\ spinCalls = <<>>
    /\ runnerResult = [kind |-> "none", categories |-> <<>>]
    /\ auditLog = <<>>
    /\ auditOutcome = NotCalled
    /\ TextIdle /\ SimIdle /\ RelIdle /\ KeywordIdle /\ ContentIdle /\ UsageIdle
    /\ ReadabilityIdle

\* Entry, up to the await of chromeLauncher.launch: the exported function
\* starts its spinner first.
RunLighthouseAudit ==
    /\ auditPc = "start"
    /\ spinCalls' = (IF auditSource = "lighthouseAnalyzer" THEN <<SpinStart>> ELSE <<>>)
    /\ auditPc' = "launch"
    /\ UNCHANGED <<auditSource, chromeState, runnerResult, auditLog, auditOutcome,
                   textVars, simVars, relVars, keywordVars, contentVars, usageVars,
                   readabilityVars>>

\* chromeLauncher.launch resolves: the options are built and lighthouse is
\* called (in the try of the exported function).
ChromeLaunched ==
    /\ auditPc = "launch"
    /\ chromeState' = "running"
    /\ auditPc' = "lighthouse"
    /\ UNCHANGED <<auditSource, spinCalls, runnerResult, auditLog, auditOutcome,
                   textVars, simVars, relVars, keywordVars, contentVars, usageVars,
                   readabilityVars>>

\* chromeLauncher.launch rejects: the await is outside the try, so the
\* function rejects with nothing else done.
ChromeLaunchFailed ==
    /\ auditPc = "launch"
    /\ auditOutcome' = Threw(LaunchError)
    /\ auditPc' = "settled"
    /\ UNCHANGED <<auditSource, chromeState, spinCalls, runnerResult, auditLog,
                   textVars, simVars, relVars, keywordVars, contentVars, usageVars,
                   readabilityVars>>

\* lighthouse resolves: chrome.kill() is called and awaited.
LighthouseResolved ==
    /\ auditPc = "lighthouse"
    /\ \E result \in RunnerResults : runnerResult' = result
    /\ auditPc' = "kill"
    /\ UNCHANGED <<auditSource, chromeState, spinCalls, auditLog, auditOutcome,
                   textVars, simVars, relVars, keywordVars, contentVars, usageVars,
                   readabilityVars>>

\* lighthouse rejects: the exported function stops the spinner in its catch
\* and rethrows; index.ts rejects at once.  Neither calls chrome.kill().
LighthouseRejected ==
    /\ auditPc = "lighthouse"
    /\ spinCalls' = spinCalls \o CatchStops
    /\ auditOutcome' = Threw(LighthouseError)
    /\ auditPc' = "settled"
    /\ UNCHANGED <<auditSource, chromeState, runnerResult, auditLog,
                   textVars, simVars, relVars, keywordVars, contentVars, usageVars,
                   readabilityVars>>

\* chrome.kill() resolves: the spinner is stopped, then a result without
\* categories is thrown (through the catch in the exported function), and
\* any other result is reported and returned.
ChromeKilled ==
    /\ auditPc = "kill"
    /\ chromeState' = "killed"
    /\ LET stopped == IF auditSource = "lighthouseAnalyzer"
                      THEN spinCalls \o <<SpinStop("Audit complete")>> ELSE spinCalls
       IN  IF ~HasCategories(runnerResult)
           THEN /\ spinCalls' = stopped \o CatchStops
                /\ auditOutcome' = Threw(NoCategoriesError)
                /\ UNCHANGED auditLog
           ELSE /\ spinCalls' = stopped
                /\ auditLog' = (IF auditSource = "lighthouseAnalyzer"
                                 THEN ScoreLines(runnerResult)
                                 ELSE IndexScoreLines(runnerResult))
                /\ auditOutcome' = Returned(runnerResult)
    /\ auditPc' = "settled"
    /\ UNCHANGED <<auditSource, runnerResult,
                   textVars, simVars, relVars, keywordVars, contentVars, usageVars,
                   readabilityVars>>

\* chrome.kill() rejects: Chrome is left as it was; the exported function
\* stops the spinner in its catch and rethrows.
ChromeKillFailed ==
    /\ auditPc = "kill"
    /\ spinCalls' = spinCalls \o CatchStops
    /\ auditOutcome' = Threw(KillError)
    /\ auditPc' = "settled"
    /\ UNCHANGED <<auditSource, chromeState, runnerResult, auditLog,
                   textVars, simVars, relVars, keywordVars, contentVars, usageVars,
                   readabilityVars>>

NextLighthouse ==
    \/ RunLighthouseAudit
    \/ ChromeLaunched
    \/ ChromeLaunchFailed
    \/ LighthouseResolved
    \/ LighthouseRejected
    \/ ChromeKilled
    \/ ChromeKillFailed

SpecLighthouse == InitLighthouse /\ [][NextLighthouse]_vars

(***************************************************************************)
(* Properties of normalizeText                                             *)
(***************************************************************************)
\* What a normalized string looks like: no removed punctuation, no uppercase
\* letter, no whitespace but single spaces between other characters.
IsNormalized(s) ==
    /\ \A i \in 1..Len(s) :
          /\ s[i] \notin Punctuation
          /\ s[i] \notin Range(UpperLetters)
          /\ IsSpace(s[i]) => s[i] = " "
    /\ Len(s) > 0 => s[1] # " " /\ s[Len(s)] # " "
    /\ \A i \in 1..(Len(s) - 1) : ~(s[i] = " " /\ s[i + 1] = " ")

\* C8: normalizeText returns for every string, its result holds no removed
\* punctuation, no uppercase letter, no leading or trailing space and no two
\* spaces in a row, and normalizing the result again changes nothing.
C8_NormalizeIdempotent ==
    /\ norm.status \in {"none", "ok"}
    /\ norm.status = "ok" => IsNormalized(norm.value)
    /\ norm2.status = "ok" => norm2.value = norm.value

\* C8 witness: a text with uppercase and with whitespace of two kinds around
\* removed punctuation has been normalized twice.
C8_Witness ==
    /\ txt = <<"A", " ", "-", "\t", "a">>
    /\ norm.value = <<"a", " ", "a">>
    /\ norm2.status = "ok"

(***************************************************************************)
(* Properties of calculateSimilarity and analyzeKeywordRelationships       *)
(***************************************************************************)
\* The set of words of a keyword: the stretches between spaces (empty ones
\* too) of the keyword in lowercase.
WordSet(keyword) ==
    LET l == LowerCase(keyword)
        n == Len(l)
    IN  {SubSeq(l, i, j) : <<i, j>> \in
            {ij \in (1..(n + 1)) \X (0..n) :
                /\ ij[2] >= ij[1] - 1
                /\ ij[1] = 1 \/ l[ij[1] - 1] = " "
                /\ ij[2] = n \/ l[ij[2] + 1] = " "
                /\ \A t \in ij[1]..ij[2] : l[t] # " "}}

\* C5: calculateSimilarity is the Jaccard index of the two lowercase
\* space-split word sets: it lies in [0,1], it is 0 for disjoint sets and 1
\* for equal sets, and swapping the arguments gives the same value.
C5_SimilarityIsJaccard ==
    LET A == WordSet(str1)
        B == WordSet(str2)
    IN  /\ sim.status = "ok" =>
              /\ sim.value.den > 0
              /\ 0 <= sim.value.num /\ sim.value.num <= sim.value.den
              /\ sim.value.num * Cardinality(A \cup B) = Cardinality(A \cap B) * sim.value.den
              /\ A \cap B = {} => sim.value.num = 0
              /\ A = B => sim.value.num = sim.value.den
        /\ (sim.status = "ok" /\ simSwapped.status = "ok") =>
              sim.value.num * simSwapped.value.den = simSwapped.value.num * sim.value.den

\* C5 witness: two keywords with the same words in another order and another
\* letter case have similarity 1, whichever comes first.
C5_Witness ==
    /\ str1 = <<"A", " ", "b">>
    /\ str2 = <<"b", " ", "a">>
    /\ sim = Returned(Fraction(2, 2))
    /\ simSwapped.status = "ok"

\* C7 as claimed: calculateSimilarity of two empty keywords is 0.
C7_EmptyKeywordsGiveZero ==
    (sim.status = "ok" /\ str1 = <<>> /\ str2 = <<>>) =>
        sim.value.den # 0 /\ sim.value.num = 0

\* C6: for more than one keyword, every unordered index pair is evaluated
\* exactly once; a pair is reported as potentially competing iff its similarity
\* is strictly above 3/10; the "sufficiently distinct" line is logged iff no
\* pair is reported.
C6_PairsAndThreshold ==
    LET n == Len(keywords)
        out == rel.value
        allPairs == {p \in (0..(n - 1)) \X (0..(n - 1)) : p[1] < p[2]}
        jaccard(p) ==
            Fraction(Cardinality(WordSet(keywords[p[1] + 1]) \cap WordSet(keywords[p[2] + 1])),
                     Cardinality(WordSet(keywords[p[1] + 1]) \cup WordSet(keywords[p[2] + 1])))
        above == {p \in allPairs : jaccard(p).num * 10 > 3 * jaccard(p).den}
        reported == {m \in 1..Len(out.log) :
                        out.log[m].message = "are similar" /\ out.log[m].params \in Range(out.similarities)}
        distinct == Line("success", "Keywords are sufficiently distinct from each other")
    IN  (rel.status = "ok" /\ n > 1) =>
            /\ Range(out.evaluated) = allPairs
            /\ Len(out.evaluated) = Cardinality(allPairs)
            /\ Len(out.similarities) = Cardinality(above)
            /\ \A p \in above :
                  \E m \in 1..Len(out.similarities) :
                      /\ out.similarities[m][1] = keywords[p[1] + 1]
                      /\ out.similarities[m][2] = keywords[p[2] + 1]
                      /\ out.similarities[m][3] = jaccard(p)
            /\ Cardinality(reported) = Cardinality(above)
            /\ (distinct \in Range(out.log)) <=> (above = {})

\* C6 witness: of three keywords, the pair at exactly 3/10 is not reported and
\* the pair at 1/3 is the only one reported.
C6_Witness ==
    /\ keywords = <<PhraseOf(1..7), PhraseOf({1, 2, 3, 8, 9, 10}), PhraseOf({1, 2})>>
    /\ rel.status = "ok"
    /\ calculateSimilarity(keywords[1], keywords[2]) = Fraction(3, 10)
    /\ Len(rel.value.evaluated) = 3
    /\ Len(rel.value.similarities) = 1
    /\ rel.value.similarities[1] = <<keywords[2], keywords[3], Fraction(2, 6)>>

(***************************************************************************)
(* Properties of findKeywordOccurrences                                    *)
(***************************************************************************)
\* The increasing sequence of the members of a set of numbers below n.
Ascending(S, n) ==
    LET in(i) == i \in S
    IN  SelectSeq([i \in 1..n |-> i - 1], in)

\* The starts p of the substrings of text that equal the keyword but for
\* letter case and have a word boundary on either side.
WholeWordStarts(text, keyword) ==
    {p \in 1..(Len(text) + 1) :
        /\ p + Len(keyword) - 1 <= Len(text)
        /\ LowerCase(SubSeq(text, p, p + Len(keyword) - 1)) = LowerCase(keyword)
        /\ WordBoundary(text, p)
        /\ WordBoundary(text, p + Len(keyword))}

\* C1: for a keyword whose normalized form is one (non-empty) token,
\* findKeywordOccurrences returns, in order of appearance, exactly the
\* whole-word matches of the normalized keyword in the original text, whatever
\* their letter case, each as the text spells it.
C1_WholeWordMatches ==
    LET nk == normalizeText(kw)
        starts == Ascending({p - 1 : p \in WholeWordStarts(txt, nk)}, Len(txt) + 1)
    IN  (occ.status # "none" /\ KeywordTokens(kw) = 1 /\ nk # <<>>) =>
            /\ occ.status = "ok"
            /\ Len(occ.value) = Len(starts)
            /\ \A j \in 1..Len(starts) :
                  occ.value[j] = SubSeq(txt, starts[j] + 1, starts[j] + Len(nk))

\* The window positions i (0-based) at which the k normalized tokens of the
\* text are the k tokens of the normalized keyword.
MatchingWindows(text, keyword) ==
    LET words == SplitChar(normalizeText(text), " ")
        keywordWords == SplitChar(normalizeText(keyword), " ")
        k == Len(keywordWords)
    IN  {i \in 0..(Len(words) - k) : \A j \in 1..k : words[i + j] = keywordWords[j]}

\* Whether the first n whitespace tokens of the original text all survive
\* normalization, so that token i of the text is token i of the normalized text.
TokensAligned(text, n) ==
    LET tokens == SplitSpaces(text)
    IN  n <= Len(tokens) /\ \A t \in 1..n : normalizeText(tokens[t]) # <<>>

WordRuns(s) ==
    Cardinality({i \in 1..Len(s) : ~IsSpace(s[i]) /\ (i = 1 \/ IsSpace(s[i - 1]))})

\* The number of tokens that splitting a normalized text on whitespace
\* gives: its words, and the one empty token of the empty text.
BodyTokens(document) ==
    LET body == normalizeText(BodyTextContent(document))
    IN  IF Len(body) = 0 THEN 1 ELSE WordRuns(body)

\* C3: for every document and keyword for which analyzeKeyword returns, the
\* density is count * (whitespace-separated words of the keyword) /
\* (whitespace tokens of the normalized body text) * 100, where count is the
\* length of the occurrences found in the body text; the density is never
\* negative; and one occurrence of a one-word keyword in a body of 100
\* normalized words gives the density 1.0.
C3_DensityFormula ==
    analyzed.status = "ok" =>
        LET a == analyzed.value
            found == findKeywordOccurrences(BodyTextContent(doc), key).value
            tokens == BodyTokens(doc)
        IN  /\ a.occurrences = found
            /\ a.count = Len(found)
            /\ tokens > 0 /\ a.density.den > 0 /\ a.density.num >= 0
            /\ a.density.num * tokens = a.count * WordRuns(key) * 100 * a.density.den
            /\ (a.count = 1 /\ WordRuns(key) = 1 /\ tokens = 100
                    => a.density.num = a.density.den)

\* C3 witness: the keyword "a" occurs once in a body of 100 words and the
\* density returned is 1.0.
C3_Witness ==
    /\ key = <<"a">>
    /\ Len(doc.body) = 1
    /\ doc.body[1].text = PaddedText(1, 100)
    /\ analyzed.status = "ok"
    /\ analyzed.value.count = 1
    /\ analyzed.value.density = Fraction(100, 100)

\* The lines of a log with one of the given messages.
LinesAmong(log, messages) == {n \in 1..Len(log) : log[n].message \in messages}

TooLowMessage == "Density is too low (aim for 0.5% - 2.5%)"
TooHighMessage == "Density is too high (possible keyword stuffing)"
OptimalMessage == "Density is optimal"
IncreaseMessage == "Increase keyword usage naturally throughout the content"
ReduceMessage == "Reduce keyword usage to avoid over-optimization"

\* C4: displayResults shows exactly one density class: "too low" iff the
\* density is below 0.5, "too high" iff it is above 2.5 and "optimal"
\* otherwise, the bounds 0.5 and 2.5 being optimal; the recommendations hold
\* the increase-usage entry iff the density is below 0.5 and the
\* reduce-usage entry iff it is above 2.5.
C4_DensityClasses ==
    displayed.status = "ok" =>
        LET d == analyzed.value.density
            log == displayed.value.log
            recommendations == Range(displayed.value.recommendations)
            below == 10 * d.num < 5 * d.den
            above == 10 * d.num > 25 * d.den
            shown(message) == LinesAmong(log, {message}) # {}
        IN  /\ Cardinality(LinesAmong(log, {TooLowMessage, TooHighMessage, OptimalMessage})) = 1
            /\ shown(TooLowMessage) <=> below
            /\ shown(TooHighMessage) <=> above
            /\ shown(OptimalMessage) <=> (~below /\ ~above)
            /\ (IncreaseMessage \in recommendations) <=> below
            /\ (ReduceMessage \in recommendations) <=> above
            /\ shown(IncreaseMessage) <=> below
            /\ shown(ReduceMessage) <=> above

\* C4 witness: a density of exactly 0.5 (one occurrence in 200 words) is
\* displayed as optimal, with neither recommendation.
C4_Witness ==
    /\ displayed.status = "ok"
    /\ analyzed.value.count = 1
    /\ 2 * analyzed.value.density.num = analyzed.value.density.den
    /\ LinesAmong(displayed.value.log, {OptimalMessage}) # {}
    /\ IncreaseMessage \notin Range(displayed.value.recommendations)

\* The headings of a document, level by level.
Headings(document) ==
    QuerySelectorAll(document, "h1") \o QuerySelectorAll(document, "h2")
        \o QuerySelectorAll(document, "h3")

\* The occurrences counted heading by heading.
RECURSIVE PerHeading(_, _, _)
PerHeading(elements, keyword, n) ==
    IF n = 0 THEN 0
    ELSE PerHeading(elements, keyword, n - 1)
         + Len(findKeywordOccurrences(elements[n].text, keyword).value)

\* The occurrences found in the heading texts joined by sep into one text.
InJoinedHeadings(document, keyword, sep) ==
    LET h == Headings(document)
    IN  Len(findKeywordOccurrences(Join([n \in 1..Len(h) |-> h[n].text], sep), keyword).value)

NumbersShown(line) ==
    IF line.message \in {"LIX Score", "Flesch Reading Ease"} THEN {line.params[1]}
    ELSE IF line.message \in {"Flesch-Kincaid Grade Level", "Gunning Fog Index",
                              "Coleman-Liau Index", "Total Words", "Total Sentences",
                              "Average Words per Sentence", "Long Words", "Complex Words"}
    THEN Range(line.params)
    ELSE {}

\* The text analysed has no word or no sentence.
Degenerate(document) ==
    \/ Len(WordsOf(FullText(document))) = 0
    \/ Len(SentencesOf(FullText(document))) = 0

\* C10: when the text analysed by analyzeContent has no word or no sentence,
\* no score or statistics line that analyzeContent writes shows NaN,
\* Infinity or -Infinity.
C10_NoNonFiniteLine ==
    Degenerate(page) =>
        \A n \in 1..Len(contentLog) : \A x \in NumbersShown(contentLog[n]) : IsFinite(x)

\* C11: for a document without paragraph elements analyzeContent completes
\* (it has no step that throws), and all it writes is the one warning that
\* there is no content: no readability block, no statistics, no
\* recommendations, and no improveText call is made.
C11_NoParagraphsOnlyWarns ==
    (Len(page.paragraphs) = 0 /\ pc # "start") =>
        /\ pc = "done"
        /\ contentLog = <<Line("warn", "No paragraph content found to analyze")>>
        /\ advisories = 0

\* C11 witness: analyzeContent has returned for a document without
\* paragraphs, with the warning written.
C11_Witness ==
    /\ Len(page.paragraphs) = 0
    /\ pc = "done"
    /\ Len(contentLog) = 1
    /\ contentLog[1].level = "warn"

(***************************************************************************)
(* Properties of analyzeKeywordUsage                                       *)
(***************************************************************************)
\* analyzeKeywordUsage has written that no keywords were provided.
SignalledNoKeywords ==
    \E n \in 1..Len(usageLog) : usageLog[n] = Line("error", "No keywords provided")

\* C12: when keywordsInput is empty after trimming, analyzeKeywordUsage
\* writes "No keywords provided" and nothing else, analyses and reports no
\* keyword, reports no relationships, and returns.
C12_EmptyInputOnlySignals ==
    (Len(Trim(keywordsInput)) = 0 /\ usagePc \notin {"idle", "start"}) =>
        /\ usagePc = "done"
        /\ usageLog = <<Line("error", "No keywords provided")>>
        /\ calls = <<>>
        /\ usageAnalysis = NotCalled

\* C12 witness: analyzeKeywordUsage has returned for an input of two spaces.
C12_Witness ==
    /\ keywordsInput = <<" ", " ">>
    /\ usagePc = "done"
    /\ SignalledNoKeywords

\* The calls of a run that analyses and reports every keyword in order and
\* then, for two keywords or more, reports their relationships.
RECURSIVE KeywordCalls(_, _)
KeywordCalls(kws, n) ==
    IF n = 0 THEN <<>>
    ELSE KeywordCalls(kws, n - 1)
         \o <<Call("analyzeKeyword", kws[n]), Call("displayResults", kws[n])>>

ExpectedCalls(kws) ==
    KeywordCalls(kws, Len(kws))
    \o (IF Len(kws) >= 2 THEN <<Call("analyzeKeywordRelationships", kws)>> ELSE <<>>)

\* C14: analyzeKeywordUsage splits the input on commas, trims the entries
\* and drops the empty ones; it analyses and reports the keywords that
\* remain one at a time in the order given, the report of a keyword being
\* complete before the analysis of the next one starts; and it reports the
\* relationships only for two keywords or more, after all keyword reports.
C14_KeywordsInOrderThenRelationships ==
    (usagePc \in {"done", "threw"} /\ Len(Trim(keywordsInput)) > 0) =>
        /\ usageKeywords = SplitKeywords(keywordsInput)
        /\ calls = ExpectedCalls(usageKeywords)

\* C20: whenever analyzeKeywordUsage returns without having written "No
\* keywords provided", it has analysed and reported at least one keyword;
\* so an input that gives no keyword after splitting, trimming and dropping
\* the empty entries is signalled.
C20_NoKeywordsAlwaysSignalled ==
    (usagePc = "done" /\ ~SignalledNoKeywords) =>
        \E n \in 1..Len(calls) : calls[n].call = "displayResults"

(***************************************************************************)
(* Properties of the improveText calls of analyzeContent                   *)
(***************************************************************************)
\* The paragraphs of more than 40 words and the sentences of more than 20
\* words of a document.
LongParagraphCount(document) ==
    Cardinality({i \in 1..Len(document.paragraphs) :
                     WordRuns(Trim(document.paragraphs[i])) > 40})

LongSentenceCount(document) ==
    LET inParagraph(i) ==
            LET sentences == ParagraphSentences(document, i)
            IN  Cardinality({j \in 1..Len(sentences) : WordRuns(sentences[j]) > 20})
    IN  SumOf([i \in 1..Len(document.paragraphs) |-> inParagraph(i)],
              Len(document.paragraphs))

FailureLines == LinesAmong(contentLog, {"Could not generate improvement suggestion"})
SuggestionLines == LinesAmong(contentLog, {"Suggested improvement:"})

\* C13: an improveText call of analyzeContent that fails does not affect
\* the analysis.  analyzeContent has no state in which it has rejected; every
\* call made has left either a suggestion or a warning; when analyzeContent
\* has returned, one call has been made for every long paragraph and every
\* long sentence, whichever calls failed, and the log ends with the
\* readability block, the statistics and the recommendations of the document,
\* which are those written when every call succeeds.
C13_AdvisoryFailuresAreHarmless ==
    /\ pc \in {"idle", "start", "paragraph", "improveParagraph", "sentence",
               "improveSentence", "done"}
    /\ Cardinality(FailureLines) + Cardinality(SuggestionLines) = advisories
    /\ \A n \in FailureLines : contentLog[n].level = "warn"
    /\ (pc = "done" /\ Len(page.paragraphs) > 0) =>
           LET report == ReadabilityReport(page)
               before == Len(contentLog) - Len(report)
           IN  /\ before >= 1
               /\ SubSeq(contentLog, before + 1, Len(contentLog)) = report
               /\ advisories = LongParagraphCount(page) + LongSentenceCount(page)

\* C13 witness: analyzeContent has returned after three improveText calls,
\* two of which failed, with the readability block written.
C13_Witness ==
    /\ pc = "done"
    /\ advisories = 3
    /\ Cardinality(FailureLines) = 2
    /\ LinesAmong(contentLog, {"Readability Analysis:"}) # {}

(***************************************************************************)
(* Properties of countWordSyllables                                        *)
(***************************************************************************)
\* The letters a-z of a word, lowercased.
LettersOf(w) ==
    LET lowered == LowerCase(w)
    IN  Filter(lowered, [i \in 1..Len(lowered) |-> lowered[i] \in Range(LowerLetters)])

\* A word without its leading "y".
WithoutLeadingY(w) == IF Len(w) > 0 /\ w[1] = "y" THEN Tail(w) ELSE w

\* The lengths of the maximal runs of the characters a, e, i, o, u, y of a
\* word, as a function of the position where the run starts.
VowelRuns(w) ==
    LET starts == {i \in 1..Len(w) : w[i] \in Vowels /\ (i = 1 \/ w[i - 1] \notin Vowels)}
        end(i) == CHOOSE j \in i..Len(w) :
                      /\ \A k \in i..j : w[k] \in Vowels
                      /\ (j = Len(w) \/ w[j + 1] \notin Vowels)
    IN  [i \in starts |-> end(i) - i + 1]

RECURSIVE SumOver(_, _)
SumOver(f, S) ==
    IF S = {} THEN 0
    ELSE LET x == CHOOSE x \in S : TRUE IN f[x] + SumOver(f, S \ {x})

\* Whether w ends with the characters of suffix.
EndsWith(w, suffix) ==
    Len(w) >= Len(suffix) /\ SubSeq(w, Len(w) - Len(suffix) + 1, Len(w)) = suffix

\* The estimator as described: the suffix goes only behind a character that
\* is none of a, e, i, o, u, y, and every run of vowels is one syllable.
ReferenceSyllables(w) ==
    LET letters == LettersOf(w)
        n == Len(letters)
        consonantAt(i) == i >= 1 /\ letters[i] \notin Vowels
        stem == IF (EndsWith(letters, <<"e", "s">>) \/ EndsWith(letters, <<"e", "d">>))
                   /\ consonantAt(n - 2)
                THEN SubSeq(letters, 1, n - 3)
                ELSE IF EndsWith(letters, <<"e">>) /\ consonantAt(n - 1)
                THEN SubSeq(letters, 1, n - 2)
                ELSE letters
        runs == Cardinality(DOMAIN VowelRuns(WithoutLeadingY(stem)))
    IN  IF n <= 3 THEN 1 ELSE IF runs > 0 THEN runs ELSE 1

\* C15 as stated: countWordSyllables equals the reference estimator for
\* every word.
C15_EqualsReferenceEstimator ==
    counted.status = "ok" => counted.value = ReferenceSyllables(sample)

\* The estimator of the code: "ed" goes behind any character, "es" and "e"
\* go only behind a character that is none of l, a, e, i, o, u, y, and a run
\* of n vowels is n / 2 syllables, rounded upwards.
HalvedRunSyllables(w) ==
    LET letters == LettersOf(w)
        n == Len(letters)
        plainAt(i) == i >= 1 /\ letters[i] \notin (Vowels \cup {"l"})
        stem == IF EndsWith(letters, <<"e", "d">>) THEN SubSeq(letters, 1, n - 2)
                ELSE IF EndsWith(letters, <<"e", "s">>) /\ plainAt(n - 2)
                THEN SubSeq(letters, 1, n - 3)
                ELSE IF EndsWith(letters, <<"e">>) /\ plainAt(n - 1)
                THEN SubSeq(letters, 1, n - 2)
                ELSE letters
        runs == VowelRuns(WithoutLeadingY(stem))
        halves == [i \in DOMAIN runs |-> (runs[i] + 1) \div 2]
        total == SumOver(halves, DOMAIN runs)
    IN  IF n <= 3 THEN 1 ELSE IF total > 0 THEN total ELSE 1

\* C15 amended: countWordSyllables is at least 1 and equals the estimator
\* with the suffix rule and the run rule of the code; it agrees with the
\* reference estimator on every word that has no run of three vowels or
\* more and whose suffix both rules treat alike; "cat" gives 1 and "banana"
\* gives 3.
C15_EqualsHalvedRunEstimator ==
    counted.status = "ok" =>
        /\ counted.value >= 1
        /\ counted.value = HalvedRunSyllables(sample)
        /\ sample = Cat => counted.value = 1
        /\ sample = Banana => counted.value = 3

\* C15 witness: "able" keeps its "le" and counts 2 syllables, where the
\* reference estimator removes it and counts 1.
C15_Witness ==
    /\ sample = <<"a", "b", "l", "e">>
    /\ counted = Returned(2)
    /\ ReferenceSyllables(sample) = 1

(***************************************************************************)
(* Properties of analyzeKeyword on degenerate documents and keywords       *)
(***************************************************************************)
\* The document without title, meta description, path and elements.
EmptyPage == Page([title |-> <<>>, metaDescription |-> <<>>, pathname |-> <<>>], <<>>)

\* C16: for the document without title, paragraphs, headings, meta
\* description and URL path, and for every keyword, analyzeKeyword returns
\* without error, with every presence flag false and every heading count 0.
C16_EmptyDocumentGivesZeroResult ==
    (doc = EmptyPage /\ analyzed.status # "none") =>
        /\ analyzed.status = "ok"
        /\ ~analyzed.value.inTitle
        /\ ~analyzed.value.inFirstParagraph
        /\ ~analyzed.value.inMetaDescription
        /\ ~analyzed.value.inUrl
        /\ analyzed.value.inHeadings = [h1 |-> 0, h2 |-> 0, h3 |-> 0]

\* C19: for a keyword made only of characters that normalization removes,
\* findKeywordOccurrences returns the empty sequence for every text.
C19_EmptyNormalizedKeywordFindsNothing ==
    (Len(kw) > 0 /\ (\A i \in 1..Len(kw) : kw[i] \in Punctuation) /\ occ.status # "none") =>
        occ = Returned(<<>>)

(***************************************************************************)
(* Properties of getReadabilityRecommendations                             *)
(***************************************************************************)
\* A finite number is above, or below, an integer bound.
Above(x, bound) == x.num > bound * x.den
Below(x, bound) == x.num < bound * x.den

\* C17: for finite averageWordsPerSentence, LIX and Flesch Reading Ease,
\* getReadabilityRecommendations gives, for the language "sv", the sentence
\* recommendation iff averageWordsPerSentence > 15 and the difficulty
\* recommendation iff LIX > 50, and nothing else; for any other language the
\* sentence recommendation iff averageWordsPerSentence > 20, the complex
\* word recommendation iff complexWords / totalWords > 0.2, and the
\* difficulty recommendation iff Flesch Reading Ease < 60, whatever the
\* score, 0 and the negative ones included.
C17_RecommendationsFollowBranchRule ==
    LET m == sample.metrics
        has(text) == text \in Range(advised.value)
    IN  (/\ advised.status = "ok"
         /\ IsFinite(m.averageWordsPerSentence) /\ IsFinite(m.lix) /\ IsFinite(m.fleschEase)) =>
            IF sample.language = <<"s", "v">>
            THEN /\ has("Consider shortening your sentences (aim for 15 words per sentence for Swedish text)")
                        <=> Above(m.averageWordsPerSentence, 15)
                 /\ has("Text might be too difficult for general audience (aim for LIX below 50)")
                        <=> Above(m.lix, 50)
                 /\ Len(advised.value) = Cardinality(Range(advised.value))
                 /\ Len(advised.value) =
                        (IF Above(m.averageWordsPerSentence, 15) THEN 1 ELSE 0)
                        + (IF Above(m.lix, 50) THEN 1 ELSE 0)
            ELSE /\ has("Consider shortening your sentences (aim for 15-20 words per sentence)")
                        <=> Above(m.averageWordsPerSentence, 20)
                 /\ has("Try using simpler words (too many complex words)")
                        <=> (m.totalWords > 0 /\ 5 * m.complexWords > m.totalWords)
                 /\ has("Content might be too difficult for general audience (aim for score above 60)")
                        <=> Below(m.fleschEase, 60)

(***************************************************************************)
(* Properties of calculateMetrics and calculateLIX                         *)
(***************************************************************************)
SentenceStops == {".", "!", "?"}

\* The number of maximal runs of characters other than ".", "!" and "?" that
\* hold a character other than whitespace.
SentenceRuns(text) ==
    LET starts == {i \in 1..Len(text) :
                       text[i] \notin SentenceStops /\ (i = 1 \/ text[i - 1] \in SentenceStops)}
        filled(i) == \E j \in i..Len(text) :
                        /\ ~IsSpace(text[j])
                        /\ \A k \in i..j : text[k] \notin SentenceStops
    IN  Cardinality({i \in starts : filled(i)})

\* The number of words of more than 6 characters.
LongWordRuns(text) ==
    Cardinality({i \in 1..Len(text) :
                     /\ ~IsSpace(text[i]) /\ (i = 1 \/ IsSpace(text[i - 1]))
                     /\ i + 6 <= Len(text)
                     /\ \A k \in i..(i + 6) : ~IsSpace(text[k])})

\* C18: calculateMetrics counts as totalWords the non-empty tokens that
\* whitespace delimits and as totalSentences the segments between runs of
\* ".", "!" and "?" that are not empty after trimming; "The cat sat. The dog
\* ran fast." has 2 sentences and 7 words; and calculateLIX computes its
\* score from the same two counts.
C18_SegmentationCounts ==
    /\ measured.status = "ok" =>
           /\ measured.value.totalWords = WordRuns(sample.text)
           /\ measured.value.totalSentences = SentenceRuns(sample.text)
           /\ sample.text = CatText =>
                  measured.value.totalSentences = 2 /\ measured.value.totalWords = 7
    /\ (measured.status = "ok" /\ lixScore.status = "ok") =>
           /\ lixScore.value = measured.value.lix
           /\ lixScore.value =
                  Plus(Divide(Number(measured.value.totalWords),
                              Number(measured.value.totalSentences)),
                       Divide(Number(LongWordRuns(sample.text) * 100),
                              Number(measured.value.totalWords)))

\* C18 witness: both functions have returned for "The cat sat. The dog ran
\* fast.", with 7 words and 2 sentences and the LIX score 7/2.
C18_Witness ==
    /\ sample.text = CatText
    /\ measured.status = "ok"
    /\ measured.value.totalWords = 7
    /\ measured.value.totalSentences = 2
    /\ lixScore = Returned(Finite(7, 2))

(***************************************************************************)
(* Properties of runLighthouseAudit                                        *)
(***************************************************************************)
\* The spinner is running: it has been started and not stopped since.
Spinning == Len(spinCalls) > 0 /\ spinCalls[Len(spinCalls)].call = "start"

\* C21: when runLighthouseAudit has settled after Chrome was launched,
\* whether it returned, threw for a result without categories or rejected
\* with the rejection of lighthouse, the Chrome instance has been killed and
\* the spinner started at entry has been stopped.
C21_ChromeKilledAndSpinnerStopped ==
    (auditPc = "settled" /\ chromeState # "none") =>
        /\ chromeState = "killed"
        /\ ~Spinning

====
